---------------------------- MODULE Spec2Model ----------------------------
(***************************************************************************)
(* Aadhaar-Pulse analytics backend: the data repository, the anomaly       *)
(* detection engine and the forecasting engine, as state machines.         *)
(*                                                                         *)
(* Units.  Python integers and floats are modelled by TLC integers:        *)
(*   - monthly enrolment counts and cumulative totals: units of 500,000    *)
(*   - monthly update counts: units of 100,000                             *)
(*   - per-state totals: units of 1,000,000; per-state monthly enrolments: *)
(*     units of 1,000                                                      *)
(*   - yoy_growth of a state: tenths of a percent; update_rate: 1/10000;   *)
(*     urban_pct: percent                                                  *)
(* Floats that are ratios are kept as exact fractions <<num, den>>.        *)
(* Months are numbered from 2020-01 = 0 (calendar month = m % 12 + 1).     *)
(***************************************************************************)
EXTENDS Integers, Sequences, FiniteSets, TLC

VARIABLES
    pc,                 \* "new" before AadhaarDataRepository(), "ready" after, "raised" if it raised
    enrolment_data,     \* self._enrolment_data : Null or rows [month, enrolments, cumulative, yoy_growth]
    update_data,        \* self._update_data    : Null or rows [month, count (by update type)]
    demographics_data,  \* self._demographics_data : Null or dimension -> bucket -> pct (tenths)
    state_data,         \* self._state_data     : Null or rows [name, code, region, ...]
    api_data,           \* self._api_data       : Null or the API response kept
    data_source,        \* self._data_source
    total_api_records,  \* self._total_api_records
    last_refresh,       \* self._last_refresh  : Null or the day of construction
    anomaly_counter,    \* AnomalyDetectionEngine._anomaly_counter
    horizon,            \* ForecastingEngine.horizon
    now,                \* the wall clock, a month number (datetime.now())
    call,               \* the entry point of the latest completed call
    result,             \* what it returned
    prev,               \* entry point -> result of the call to it before the latest one
    issued,             \* every anomaly id generated so far, in order of generation
    thr,                \* the two concurrent detect_all_anomalies callers (SpecRace)
    fetch               \* the frame of a DataGovClient.fetch_all_records call (SpecFetch)

vars == <<pc, enrolment_data, update_data, demographics_data, state_data, api_data,
          data_source, total_api_records, last_refresh, anomaly_counter, horizon, now, call,
          result, prev, issued, thr, fetch>>

repoVars == <<enrolment_data, update_data, demographics_data, state_data, api_data,
              data_source, total_api_records, last_refresh>>

\* Optional values: None is <<>>, a value x is <<x>>
Null == <<>>

Some(x) == <<x>>

\* Floats that may be non-finite are fractions <<num, den>>; den = 0 marks NaN
\* (num = 0) and +inf / -inf (num = 1 / -1)
NaN == <<0, 0>>

Inf(sign) == <<sign, 0>>

----------------------------------------------------------------------------
(* Bounds of the exploration *)

MaxApiMonths == 13      \* longest month span of the API records explored
MaxHotRank == 3         \* random per-state draws deviate only for the first MaxHotRank rows
MaxCounter == 3         \* detection runs start only while the id counter is below this
MaxNoisy == 1           \* months of the synthetic series whose random factor is not 1
MaxHorizon == 6         \* largest horizon_months explored
MaxRecords == 4         \* largest max_records of fetch_all_records explored
MaxPage == 3            \* largest number of records in one page response
MaxNoisyTypes == 2      \* update types of the latest month whose random factor is not 1
MaxSeasonLen == 3       \* longest time series handed to _calculate_seasonal_patterns alone

----------------------------------------------------------------------------
(* Arithmetic helpers: Python's int(), round(), max(), sum() *)

Max(a, b) == IF a >= b THEN a ELSE b

Min(a, b) == IF a <= b THEN a ELSE b

Abs(a) == IF a < 0 THEN -a ELSE a

\* int(num/den) for den > 0: truncation toward zero
Trunc(num, den) == IF num >= 0 THEN num \div den ELSE -((-num) \div den)

\* the first rows where the last ones were meant
TailNFromHead(s, n) == IF n >= Len(s) THEN s ELSE SubSeq(s, 1, n)

\* the last n elements of s (DataFrame.tail(n), list[-n:]) for n >= 0
TailN(s, n) == IF n >= Len(s) THEN s ELSE SubSeq(s, Len(s) - n + 1, Len(s))

\* the first n elements of s (list[:n], DataFrame.head(n))
HeadN(s, n) == IF n >= Len(s) THEN s ELSE SubSeq(s, 1, n)

\* the sequence s as a tuple of values (evaluated once, not on every access)
Strict(s) == s \o <<>>

\* F(x), with x evaluated once however often F uses it
Apply(F(_), x) == CHOOSE r \in {F(v) : v \in {x}} : TRUE

RECURSIVE SumRange(_, _, _)
\* s[lo] + ... + s[hi], by halves
SumRange(s, lo, hi) ==
    IF lo > hi THEN 0
    ELSE IF lo = hi THEN s[lo]
    ELSE SumRange(s, lo, (lo + hi) \div 2) + SumRange(s, ((lo + hi) \div 2) + 1, hi)

\* sum() of a sequence of integers
SumSeq(s) ==
    LET Sum(v) == SumRange(v, 1, Len(v))
    IN  Apply(Sum, s)

\* the indexes of s that satisfy Test, ascending
Indexes(s, Test(_)) ==
    LET Keep(i) == Test(s[i]) IN SelectSeq([i \in 1..Len(s) |-> i], Keep)

\* s sorted so that a precedes b whenever Before(a, b); elements neither of
\* which is before the other keep their order (list.sort and sorted are stable)
SortStable(s, Before(_, _)) ==
    LET Place(v) ==
            LET Pos(i) == 1 + Cardinality({j \in 1..Len(v) :
                                \/ Before(v[j], v[i])
                                \/ (~Before(v[i], v[j]) /\ j < i)})
                Put(at) == Strict([p \in 1..Len(v) |->
                                      v[CHOOSE i \in 1..Len(v) : at[i] = p]])
            IN  Apply(Put, Strict([i \in 1..Len(v) |-> Pos(i)]))
    IN  Apply(Place, s)

\* round(num/den) for den > 0, ties to even (Python's round on the exact quotient)
RoundHalfEven(num, den) ==
    LET q == num \div den
        r == num - q * den
    IN  IF 2 * r < den THEN q
        ELSE IF 2 * r > den THEN q + 1
        ELSE IF q % 2 = 0 THEN q ELSE q + 1

----------------------------------------------------------------------------
(* Program constants *)

NumMonths == 60             \* pd.date_range("2020-01-01", "2024-12-31", freq="MS")
base_monthly == 24          \* 12_000_000
base_cumulative == 2400     \* 1_200_000_000
api_scale_target == 25      \* 12_500_000
base_updates == 70          \* 7_000_000
min_states == 28            \* len(self._state_data) < 28
\* a threshold one point short
forecast_min_points_off_by_one == 12 - 1

forecast_min_points == 12   \* len(timeseries) < 12
forecast_months == 36       \* get_*_timeseries(months=36)
detect_months == 24         \* get_enrolment_timeseries(months=24)
default_horizon == 6        \* horizon_months: int = 6

\* 1000 * (1 + 0.15 * cos(2*pi*(month - 1)/12)) for month = 1..12
enrolment_seasonal == <<1150, 1130, 1075, 1000, 925, 870, 850, 870, 925, 1000, 1075, 1130>>

\* 1000 * (1 + 0.1 * cos(2*pi*(month - 3)/12)) for month = 1..12
update_seasonal == <<1050, 1087, 1100, 1087, 1050, 1000, 950, 913, 900, 913, 950, 1000>>

\* update_types: the proportion of each type, in percent
update_types == <<[type |-> "Address", pct |-> 38], [type |-> "Mobile", pct |-> 28],
                  [type |-> "Email", pct |-> 14], [type |-> "Biometric", pct |-> 12],
                  [type |-> "Photo", pct |-> 5], [type |-> "Name", pct |-> 2],
                  [type |-> "Date of Birth", pct |-> 1]>>

\* states_info of _generate_simulated_state_data; its first 16 rows are all_states
\* of _supplement_state_data
states_info == <<
    <<"Uttar Pradesh", "UP", "North", 185>>, <<"Maharashtra", "MH", "West", 128>>,
    <<"Bihar", "BR", "East", 112>>, <<"West Bengal", "WB", "East", 98>>,
    <<"Madhya Pradesh", "MP", "Central", 89>>, <<"Rajasthan", "RJ", "North", 82>>,
    <<"Tamil Nadu", "TN", "South", 78>>, <<"Karnataka", "KA", "South", 72>>,
    <<"Gujarat", "GJ", "West", 68>>, <<"Andhra Pradesh", "AP", "South", 52>>,
    <<"Odisha", "OD", "East", 48>>, <<"Telangana", "TS", "South", 42>>,
    <<"Kerala", "KL", "South", 38>>, <<"Jharkhand", "JH", "East", 35>>,
    <<"Assam", "AS", "Northeast", 32>>, <<"Punjab", "PB", "North", 30>>,
    <<"Chhattisgarh", "CG", "Central", 28>>, <<"Haryana", "HR", "North", 27>>,
    <<"Delhi", "DL", "North", 22>> >>

all_states == SubSeq(states_info, 1, 16)

\* state_codes of _generate_state_data_from_api, for the names the explored
\* records use (for these it has the codes and regions of states_info); any
\* other name maps to ("XX", "Other")
state_codes(name) ==
    LET known == {i \in 1..Len(states_info) : states_info[i][1] = name}
    IN  IF known = {} THEN <<"XX", "Other">>
        ELSE <<states_info[CHOOSE i \in known : TRUE][2],
               states_info[CHOOSE i \in known : TRUE][3]>>

----------------------------------------------------------------------------
(* Time series generation *)

MonthOf(m) == (m % 12) + 1       \* month.month

YearOf(m) == 2020 + (m \div 12)  \* month.year

\* Series.pct_change(periods=12) * 100 of one row: a fraction in percent,
\* NaN for 0/0 and for the first 12 rows, inf for a positive value over 0
PctChange(v, p) ==
    IF p = 0 THEN (IF v = 0 THEN NaN ELSE Inf(IF v > 0 THEN 1 ELSE -1))
    ELSE <<(v - p) * 100, p>>

\* .fillna(0)
FillNa(x) == IF x = NaN THEN <<0, 1>> ELSE x

\* df["yoy_growth"] = df["enrolments"].pct_change(periods=12) * 100, then .fillna(0);
\* vals is the column of enrolments, the result the column of yoy_growth
YoyColumn(vals) ==
    [i \in 1..Len(vals) |->
        FillNa(IF i <= 12 THEN NaN ELSE PctChange(vals[i], vals[i - 12]))]

\* a cumulative column that adds each month to the base instead of the running total
CumSumNoCarry(base, vals) == [i \in 1..Len(vals) |-> base + vals[i]]

\* base + Series.cumsum()
CumSum(base, vals) ==
    LET Running(v) == Strict([i \in 1..Len(v) |-> base + SumRange(v, 1, i)])
    IN  Apply(Running, vals)

\* the frame of monthly rows built from the columns
EnrolmentFrame(months, vals, cums, yoys) ==
    [i \in 1..Len(vals) |->
        [month |-> months[i], enrolments |-> vals[i], cumulative |-> cums[i],
         yoy_growth |-> yoys[i]]]

\* np.random.normal draws: noise is a set of <<month, percent>> pairs, the months
\* whose random factor is not 1
NoiseAt(noise, m) ==
    IF \E x \in noise : x[1] = m THEN (CHOOSE x \in noise : x[1] = m)[2] ELSE 0

\* _generate_enrolment_data: the synthetic monthly enrolment series
GenerateEnrolmentData(noise) ==
    LET months == [i \in 1..NumMonths |-> i - 1]
        vals == Strict([i \in 1..NumMonths |->
                    LET m == i - 1
                        seasonal_factor == enrolment_seasonal[MonthOf(m)]
                        year_factor == 100 + Max(2, 15 - 3 * (YearOf(m) - 2020))
                        random_factor == 100 + NoiseAt(noise, m)
                    IN  Trunc(base_monthly * seasonal_factor * year_factor * random_factor,
                              10000000)])
    IN  EnrolmentFrame(months, vals, CumSum(base_cumulative, vals), YoyColumn(vals))

\* _generate_update_data: one row per month holding the count of each update type
\* (noise: <<month, percent>> on the month's total; tnoise: <<month * 10 + type,
\* percent>> on one type's count)
GenerateUpdateData(noise, tnoise) ==
    [i \in 1..NumMonths |->
        LET m == i - 1
            total_updates ==
                Trunc(base_updates * (100 + 5 * (YearOf(m) - 2020))
                        * update_seasonal[MonthOf(m)] * (100 + NoiseAt(noise, m)),
                      10000000)
        IN  [month |-> m,
             count |-> [t \in 1..Len(update_types) |->
                          Trunc(total_updates * update_types[t].pct
                                  * (100 + NoiseAt(tnoise, (m * 10) + t)), 10000)]]]

\* _generate_demographics_data: the percentages, in tenths of a percent
GenerateDemographicsData ==
    [age_groups |-> <<31, 193, 241, 221, 172, 142>>,
     gender |-> [Male |-> 510, Female |-> 483, Other |-> 7],
     location |-> [Urban |-> 582, Rural |-> 418]]

----------------------------------------------------------------------------
(* State data *)

\* np.random.uniform draws of one state row: yoy_growth (tenths of a percent),
\* update_rate (1/10000), urban_pct (percent)
BaseDraw == [yoy_growth |-> 100, update_rate |-> 800, urban_pct |-> 45]

\* draws: [hot |-> the row indexes that draw `draw`, draw |-> ...]; the others
\* draw BaseDraw
DrawOf(draws, i) == IF i \in draws.hot THEN draws.draw ELSE BaseDraw

StateRow(name, code, region, total, d) ==
    [name |-> name, code |-> code, region |-> region, total_enrolments |-> total,
     monthly_enrolments |-> total * 8,      \* int(enrolments * 0.008)
     yoy_growth |-> d.yoy_growth, update_rate |-> d.update_rate, urban_pct |-> d.urban_pct]

\* _generate_simulated_state_data
GenerateSimulatedStateData(draws) ==
    [i \in 1..Len(states_info) |->
        StateRow(states_info[i][1], states_info[i][2], states_info[i][3],
                 states_info[i][4], DrawOf(draws, i))]

\* _supplement_state_data: append the rows of all_states whose name is missing
SupplementStateData(frame, draws) ==
    LET existing_states == {frame[i].name : i \in 1..Len(frame)}
        Missing(st) == st[1] \notin existing_states
        new_data == SelectSeq(all_states, Missing)
    IN  frame \o [i \in 1..Len(new_data) |->
                    StateRow(new_data[i][1], new_data[i][2], new_data[i][3],
                             new_data[i][4], DrawOf(draws, Len(frame) + i))]

----------------------------------------------------------------------------
(* Processing of the API response                                          *)
(*                                                                         *)
(* A response is [kind, cols, rows, total]: kind "raise" (the fetch raised),*)
(* "error" (the fetcher's error result) or "ok"; cols the keys the records *)
(* carry, among "date", "state", "ages"; total: <<n>> for a number n in    *)
(* units of 10,000, <<>> for a value int() rejects.  A row is              *)
(* [date, state, age]: date <<m>> or <<>> (unparseable, NaT), state <<name>>*)
(* or <<>> (missing, NaN), age the three age counts, each <<n>> or <<>>    *)
(* (not numeric).                                                          *)

\* pd.to_numeric(errors="coerce").fillna(0).astype(int)
Coerce(x) == IF x = <<>> THEN 0 ELSE x[1]

\* df["total_enrolments"]: the sum of the age columns (0 when they are missing)
RowTotal(cols, row) ==
    IF "ages" \in cols THEN Coerce(row.age[1]) + Coerce(row.age[2]) + Coerce(row.age[3])
    ELSE 0

\* groupby(key)[col].sum() of one group
GroupSum(cols, rows, InGroup(_)) ==
    SumSeq([i \in 1..Len(rows) |-> IF InGroup(rows[i]) THEN RowTotal(cols, rows[i]) ELSE 0])

RECURSIVE SortedSeq(_)
\* the elements of a finite set of integers, ascending (groupby sorts its keys)
SortedSeq(S) ==
    IF S = {} THEN <<>>
    ELSE LET m == CHOOSE x \in S : \A y \in S : x <= y
         IN  <<m>> \o SortedSeq(S \ {m})

\* the state names of the explored records, in the order groupby sorts them
NameOrder ==
    <<"Andhra Pradesh", "Assam", "Atlantis", "Bihar", "Delhi", "Gujarat", "Jharkhand",
      "Karnataka", "Kerala", "Madhya Pradesh", "Maharashtra", "Narnia", "Odisha", "Punjab",
      "Rajasthan", "Tamil Nadu", "Telangana", "Uttar Pradesh", "West Bengal">>

\* _generate_state_data_from_api, lines 216-287: one row per state name present
StateFrameFromApi(cols, rows, total, draws) ==
    LET present == {rows[i].state[1] : i \in {j \in 1..Len(rows) : rows[j].state # <<>>}}
        Present(name) == name \in present
        names == SelectSeq(NameOrder, Present)
    IN  [k \in 1..Len(names) |->
            LET In(row) == row.state = <<names[k]>>
                \* int(row["total_enrolments"] * scale_factor)
                tot == Trunc(GroupSum(cols, rows, In) * total, Max(1, Len(rows)))
            IN  StateRow(names[k], state_codes(names[k])[1], state_codes(names[k])[2],
                         tot, DrawOf(draws, k))]

\* _generate_enrolment_timeseries_from_api, lines 346-367
EnrolmentFrameFromApi(cols, rows) ==
    LET dated == {i \in 1..Len(rows) : rows[i].date # <<>>}
        months == SortedSeq({rows[i].date[1] : i \in dated})
        totals == [k \in 1..Len(months) |->
                     LET In(row) == row.date = <<months[k]>> IN GroupSum(cols, rows, In)]
        n == Len(months)
        \* scale = 12_500_000 / max(1, mean): total * scale = total * 25 * n / max(n, sum)
        vals == [k \in 1..n |->
                   Trunc(totals[k] * api_scale_target * n, Max(n, SumSeq(totals)))]
    IN  EnrolmentFrame(months, vals, CumSum(base_cumulative, vals), YoyColumn(vals))

\* _generate_demographics_from_api
DemographicsFromApi(cols, rows) ==
    LET Col(j) == IF "ages" \in cols
                  THEN SumSeq([i \in 1..Len(rows) |-> Coerce(rows[i].age[j])])
                  ELSE 0
        sum == Col(1) + Col(2) + Col(3)
        total == IF sum = 0 THEN 1 ELSE sum
    IN  [age_groups |-> [j \in 1..3 |-> RoundHalfEven(Col(j) * 1000, total)],
         gender |-> [Male |-> 510, Female |-> 483, Other |-> 7],
         location |-> [Urban |-> 582, Rural |-> 418]]

----------------------------------------------------------------------------
(* AadhaarDataRepository.__init__ and _initialize_data                     *)

\* the fields set by __init__ before _initialize_data runs
NewRepository ==
    [enrolment_data |-> Null, update_data |-> Null, demographics_data |-> Null,
     state_data |-> Null, api_data |-> Null, data_source |-> "simulated",
     total_api_records |-> 0, raised |-> FALSE]

\* the random draws of one construction: en, un, tn the normal draws of the
\* enrolment and update generators, draws the uniform draws of the state rows
\* _generate_simulated_data
GenerateSimulatedData(S, rnd) ==
    [S EXCEPT !.data_source = "simulated",
              !.enrolment_data = Some(GenerateEnrolmentData(rnd.en)),
              !.update_data = Some(GenerateUpdateData(rnd.un, rnd.tn)),
              !.demographics_data = Some(GenerateDemographicsData),
              !.state_data = Some(GenerateSimulatedStateData(rnd.draws))]

\* a handler that lets the exception through instead of falling back
ExceptHandlerReraises(S, rnd) == [S EXCEPT !.raised = TRUE]

\* the except branch of _initialize_data, lines 166-168
ExceptHandler(S, rnd) == GenerateSimulatedData(S, rnd)

\* _process_api_data after the frame is built: lines 197-207.  An exception
\* (KeyError of the aggregation when the age columns are missing, KeyError of
\* _supplement_state_data on a frame without rows) leaves through ExceptHandler
ProcessApiData(S, resp, rnd) ==
    LET noState == "state" \notin resp.cols
        frame == StateFrameFromApi(resp.cols, resp.rows, S.total_api_records, rnd.draws)
        noDates == \/ "date" \notin resp.cols
                   \/ \A i \in 1..Len(resp.rows) : resp.rows[i].date = <<>>
    IN  IF ~noState /\ "ages" \notin resp.cols
        THEN ExceptHandler(S, rnd)
        ELSE IF ~noState /\ Len(frame) = 0
        THEN ExceptHandler([S EXCEPT !.state_data = Some(frame)], rnd)
        ELSE [S EXCEPT
                !.state_data =
                    Some(IF noState THEN GenerateSimulatedStateData(rnd.draws)
                         ELSE IF Len(frame) < min_states
                              THEN SupplementStateData(frame, rnd.draws)
                              ELSE frame),
                !.enrolment_data =
                    Some(IF noDates THEN GenerateEnrolmentData(rnd.en)
                         ELSE EnrolmentFrameFromApi(resp.cols, resp.rows)),
                !.demographics_data = Some(DemographicsFromApi(resp.cols, resp.rows)),
                !.update_data = Some(GenerateUpdateData(rnd.un, rnd.tn))]

\* _initialize_data: the repository after construction, for one response of
\* the fetcher and one outcome of the random draws
InitializeData(resp, rnd) ==
    LET S == NewRepository
    IN  IF resp.kind = "raise" THEN ExceptHandler(S, rnd)
        ELSE IF resp.kind = "ok" /\ Len(resp.rows) > 0
        THEN LET S1 == [S EXCEPT !.api_data = Some(resp)]
             IN  IF resp.total = <<>>
                 THEN ExceptHandler(S1, rnd)      \* int(api_response.get("total", 0)) raised
                 ELSE ProcessApiData([S1 EXCEPT !.total_api_records = resp.total[1],
                                                !.data_source = "Data.gov.in API"],
                                     resp, rnd)
        ELSE GenerateSimulatedData(S, rnd)

----------------------------------------------------------------------------
(* The inputs explored: API responses and random draws *)

\* the first month of the explored API records: 2023-01
StartMonth == 3 * 12

AllCols == {"date", "state", "ages"}

\* the age counts of row k under a pattern of values
AgesOf(pattern, k) ==
    CASE pattern = "spike" /\ k = 1 -> <<Some(1), Some(2), Some(6)>>
      [] pattern = "zero" /\ k = 1 -> <<Some(0), Some(0), Some(0)>>
      [] pattern = "zeros" -> <<Some(0), Some(0), Some(0)>>
      [] pattern = "early" -> IF k <= 3 THEN <<Some(1), Some(2), Some(6)>>
                              ELSE <<Some(0), Some(0), Some(0)>>
      [] pattern = "junk" /\ k = 2 -> <<Null, Null, Null>>
      [] OTHER -> <<Some(0), Some(1), Some(2)>>

\* the state name of row k
StateOf(naming, k) ==
    CASE naming = "known" -> Some(<<"Bihar", "Delhi", "Kerala">>[((k - 1) % 3) + 1])
      [] naming = "unknown" -> Some(<<"Atlantis", "Narnia", "Bihar">>[((k - 1) % 3) + 1])
      [] naming = "metro" -> Some(<<"Maharashtra", "Delhi", "Bihar">>[((k - 1) % 3) + 1])
      [] OTHER -> Null

\* n records, one per month from StartMonth on, the month after the gap-th
\* record skipped when gap > 0; with dup, one more record in the first month
RowsOf(n, gap, pattern, naming, dup) ==
    [k \in 1..n |->
        [date |-> Some(StartMonth + (k - 1) + (IF gap > 0 /\ k > gap THEN 1 ELSE 0)),
         state |-> StateOf(naming, k), age |-> AgesOf(pattern, k)]]
    \o (IF dup /\ n > 0
        THEN <<[date |-> Some(StartMonth), state |-> StateOf(naming, 2),
                age |-> <<Some(1), Some(0), Some(0)>>]>>
        ELSE <<>>)

OkResponse(cols, rows, total) == [kind |-> "ok", cols |-> cols, rows |-> rows, total |-> total]

FailedResponses ==
    {[kind |-> k, cols |-> {}, rows |-> <<>>, total |-> Some(0)] : k \in {"raise", "error"}}

\* responses that vary the monthly series
SeriesResponses ==
    {OkResponse(AllCols, RowsOf(n, gap, pattern, "known", FALSE), Some(3)) :
        n \in 0..MaxApiMonths, gap \in {0, 3},
        pattern \in {"flat", "spike", "zero", "zeros", "junk"}}

\* responses that vary the keys of the records, the state names and the total
FrameResponses ==
    {OkResponse(cols, RowsOf(n, 0, "flat", naming, dup), total) :
        n \in {1, 3}, cols \in {AllCols, AllCols \ {"date"}, AllCols \ {"state"},
                                AllCols \ {"ages"}},
        naming \in {"known", "unknown", "nan"}, dup \in BOOLEAN,
        total \in {Null, Some(0), Some(3)}}

RECURSIVE NoiseSets(_, _, _)
\* the sets of at most k <<month, percent>> pairs, months distinct
NoiseSets(k, months, pcts) ==
    IF k = 0 THEN {{}}
    ELSE LET P == NoiseSets(k - 1, months, pcts)
         IN  P \cup UNION {{s \cup {<<m, p>>} : m \in months \ {x[1] : x \in s}, p \in pcts} :
                           s \in {t \in P : Cardinality(t) = k - 1}}

NoRandom == [en |-> {}, un |-> {}, tn |-> {}, draws |-> [hot |-> {}, draw |-> BaseDraw]]

\* random draws that vary the synthetic enrolment series
EnrolmentDraws ==
    {[NoRandom EXCEPT !.en = e] : e \in NoiseSets(MaxNoisy, {0, 12, 47}, {-15, 15})}

----------------------------------------------------------------------------
(* Repository queries *)

\* strftime("%Y-%m") of a month: the year and the calendar month
Period(m) == <<YearOf(m), MonthOf(m)>>

\* round(float(x), 2) of a fraction: hundredths over 100; inf and NaN stay
Round2(x) == IF x[2] = 0 THEN x ELSE <<RoundHalfEven(x[1] * 100, x[2]), 100>>

\* get_enrolment_timeseries(months) on the stored frame (None: [])
get_enrolment_timeseries(data, months) ==
    IF data = Null THEN <<>>
    ELSE LET df == TailN(data[1], months)
         IN  Strict([i \in 1..Len(df) |->
                [period |-> Period(df[i].month), value |-> df[i].enrolments,
                 cumulative |-> df[i].cumulative,
                 yoy_growth |-> Round2(df[i].yoy_growth)]])

\* get_update_timeseries(months): the per-month sum of the counts, last `months` rows
get_update_timeseries(data, months) ==
    IF data = Null THEN <<>>
    ELSE LET df == TailN(data[1], months)
         IN  Strict([i \in 1..Len(df) |->
                [period |-> Period(df[i].month), value |-> SumSeq(df[i].count)]])

----------------------------------------------------------------------------
(* Float arithmetic of the forecasting engine                              *)
(*                                                                         *)
(* A float is a fixed-point integer in units of 1/FP; a quotient is        *)
(* truncated to that unit the way a float is rounded to its precision.     *)

FP == 1000

\* the digits b is cut into: 2 * radix * c stays below 2^31
Radix(c) == IF c < 67108864 THEN 16 ELSE 2

RECURSIVE MulDivPair(_, _, _)
\* <<q, r>> with a * b = q * c + r and 0 <= r < c, for a, b >= 0 and c > 0,
\* computed without forming a * b: a * b = Radix * (a * (b div Radix)) + a * (b mod Radix)
MulDivPair(a, b, c) ==
    IF b = 0 THEN <<0, 0>>
    ELSE LET Combine(h) ==
                 LET r == (Radix(c) * h[2]) + ((a % c) * (b % Radix(c)))
                 IN  <<(Radix(c) * h[1]) + ((a \div c) * (b % Radix(c))) + (r \div c), r % c>>
         IN  Apply(Combine, MulDivPair(a, b \div Radix(c), c))

\* a * b / c truncated toward zero, for c > 0
MulDiv(a, b, c) ==
    LET Quot(t) ==
            LET q == MulDivPair(Abs(t[1]), Abs(t[2]), t[3])[1]
            IN  IF (t[1] < 0) # (t[2] < 0) THEN -q ELSE q
    IN  Apply(Quot, <<a, b, c>>)

RECURSIVE ISqrtFrom(_, _, _)
\* the largest r in lo..hi with r * r <= v
ISqrtFrom(v, lo, hi) ==
    IF lo >= hi THEN lo
    ELSE LET mid == (lo + hi + 1) \div 2
         IN  IF mid * mid <= v THEN ISqrtFrom(v, mid, hi) ELSE ISqrtFrom(v, lo, mid - 1)

\* floor(sqrt(v)) for 0 <= v < 2^31
ISqrt(v) == ISqrtFrom(v, 0, 46340)

----------------------------------------------------------------------------
(* Dates: a day is a number of days since 2020-01-01 *)

IsLeap(y) == (y % 4 = 0 /\ y % 100 # 0) \/ y % 400 = 0

DaysInMonth(y, m) ==
    IF m = 2 THEN (IF IsLeap(y) THEN 29 ELSE 28)
    ELSE IF m \in {4, 6, 9, 11} THEN 30 ELSE 31

\* the days from 2020-01-01 to the first of January of year y
YearStart(y) == (365 * (y - 2020)) + Cardinality({z \in 2020..(y - 1) : IsLeap(z)})

\* the days from the first of January of year y to the first of month m
MonthStart(y, m) == SumSeq([k \in 1..(m - 1) |-> DaysInMonth(y, k)])

\* the date d days after the first of January of year y, for d within the year
DateFrom(y, d) ==
    LET On(p) ==
            LET Day(m) == [year |-> p[1], month |-> m,
                           day |-> (p[2] - MonthStart(p[1], m)) + 1]
            IN  Apply(Day, CHOOSE k \in 1..12 :
                               MonthStart(p[1], k) <= p[2] /\ p[2] < MonthStart(p[1], k + 1))
    IN  Apply(On, <<y, d>>)

\* the date of a day number (days from 2020-01-01, up to 2059)
DateOf(day) ==
    LET At(t) ==
            LET In(y) == DateFrom(y, t - YearStart(y))
            IN  Apply(In, CHOOSE z \in 2020..2059 : YearStart(z) <= t /\ t < YearStart(z + 1))
    IN  Apply(At, day)

----------------------------------------------------------------------------
(* ForecastingEngine *)

\* _decompose, lines 77-81: window = min(12, n // 2)
Window(n) == Min(12, n \div 2)

\* np.convolve(values, np.ones(window) / window, mode='same')[t - 1] * window:
\* the sum of the values at 0-based indexes t0 - window + 1 + (window - 1) // 2
\* to t0 + (window - 1) // 2 that exist (t0 = t - 1)
WindowSum(values, t) ==
    LET w == Window(Len(values))
        hi == (t - 1) + ((w - 1) \div 2)
        lo == hi - w + 1
    IN  SumSeq([j \in 1..Len(values) |->
                   IF lo <= j - 1 /\ j - 1 <= hi THEN values[j] ELSE 0])

\* _decompose: trend[t] = trendsum[t] / window; detrended[t] = detsum[t] / window;
\* seasonal[i] (i = 0..11) = the mean of detrended[i::12] = seasonal[i + 1][1] /
\* (seasonal[i + 1][2] * window), 0 when the slice is empty
Decompose(values) ==
    LET n == Len(values)
        w == Window(n)
        trendsum == Strict([t \in 1..n |-> WindowSum(values, t)])
        detsum == Strict([t \in 1..n |-> (w * values[t]) - trendsum[t]])
        Slice(i) == {t \in 1..n : (t - 1) % 12 = i}
    IN  [window |-> w, trendsum |-> trendsum, detsum |-> detsum,
         seasonal |-> Strict([k \in 1..12 |->
                          <<SumSeq([t \in 1..n |-> IF t \in Slice(k - 1) THEN detsum[t] ELSE 0]),
                            Cardinality(Slice(k - 1))>>])]

\* seasonal[i] as a float
SeasonalValue(dec, i) ==
    IF dec.seasonal[i + 1][2] = 0 THEN 0
    ELSE MulDiv(dec.seasonal[i + 1][1], FP, dec.seasonal[i + 1][2] * dec.window)

\* stats.linregress(np.arange(n), trend): slope * future_x + intercept as a float.
\* With sx = sum x, slope = (n*sum(x*y) - sx*sum(y)) / (n*sum(x*x) - sx*sx) and
\* intercept = mean(y) - slope * mean(x), this is mean(y) + slope * (future_x - mean(x))
TrendValue(dec, n, future_x) ==
    LET sx == (n * (n - 1)) \div 2
        sxx == SumSeq([t \in 1..n |-> (t - 1) * (t - 1)])
        sy == SumSeq(dec.trendsum)
        sxy == SumSeq([t \in 1..n |-> (t - 1) * dec.trendsum[t]])
        num == (n * sxy) - (sx * sy)
        den == (n * sxx) - (sx * sx)
    IN  MulDiv(sy, FP, n * dec.window)
          + MulDiv(num, ((2 * future_x) - (n - 1)) * FP, 2 * den * dec.window)

\* np.std(values - trend) as a float: sqrt(n * sum(d*d) - sum(d)^2) / n; the
\* radicand is quartered where it would not fit 32 bits
ResidualStd(dec, n) ==
    LET Std(s) ==
            IF s[2] <= 2147483647 \div n
            THEN MulDiv(ISqrt((n * s[2]) - (s[1] * s[1])), FP, n * dec.window)
            ELSE MulDiv(2 * ISqrt((n * (s[2] \div 4)) - ((s[1] \div 2) * (s[1] \div 2))),
                        FP, n * dec.window)
    IN  Apply(Std, <<SumSeq(dec.detsum),
                     SumSeq([t \in 1..n |-> dec.detsum[t] * dec.detsum[t]])>>)

\* a half-width that does not widen with the horizon
HalfWidthConstant(residual_std, i) == MulDiv(residual_std, 196 * 10, 1000)

\* ci_multiplier = 1.96 * (1 + 0.1 * i), times the residual std
HalfWidth(residual_std, i) == MulDiv(residual_std, 196 * (10 + i), 1000)

\* a bound left as it is
NoClamp(x) == x

\* max(0, x)
ClampZero(x) == Max(0, x)

\* one pass of the loop of _forecast_with_confidence, lines 117-144; today is
\* datetime.now() as a day
ForecastPoint(values, dec, today, i) ==
    LET n == Len(values)
        future_x == n + i
        Season(future_month) ==
            IF future_month < 12 THEN SeasonalValue(dec, future_month) ELSE 0
        seasonal_value == Apply(Season, (DateOf(today).month + i - 1) % 12)
        Point(p) ==
            LET predicted == p[1]
                lower == predicted - p[2]
                upper == predicted + p[2]
                forecast_date == p[3]
            IN  [period |-> <<forecast_date.year, forecast_date.month>>,
                 predicted |-> Trunc(ClampZero(predicted), FP),
                 lower |-> Trunc(ClampZero(lower), FP),
                 upper |-> Trunc(ClampZero(upper), FP),
                 raw_lower |-> lower, raw_upper |-> upper]
    IN  Apply(Point, <<TrendValue(dec, n, future_x) + seasonal_value,
                       HalfWidth(ResidualStd(dec, n), i),
                       DateOf(today + (30 * i))>>)

\* _forecast_with_confidence
ForecastWithConfidence(values, dec, hz, today) ==
    [i \in 1..hz |-> ForecastPoint(values, dec, today, i)]

\* _calculate_model_metrics: mae = int(mean(|values - fitted|)), fitted = trend
\* + the tiled seasonal.  (r_squared, mape and rmse are not modelled.)
ModelMetrics(values, dec) ==
    LET n == Len(values)
        Fitted(t) == MulDiv(dec.trendsum[t], FP, dec.window)
                        + SeasonalValue(dec, (t - 1) % 12)
    IN  [mae |-> Trunc(SumSeq([t \in 1..n |-> Abs((values[t] * FP) - Fitted(t))]) \div n, FP)]

\* generate_forecast(metric) on the repository's series
generate_forecast(metric, enrol, upd, hz, today) ==
    LET Model(timeseries) ==
            LET Fit(values) ==
                    LET Build(dec) ==
                            [metric |-> metric,
                             historical |-> TailN(timeseries, 12),
                             forecast |-> ForecastWithConfidence(values, dec, hz, today),
                             accuracy_metrics |-> ModelMetrics(values, dec),
                             model_info |-> [last_trained |-> DateOf(today),
                                             training_samples |-> Len(values)]]
                    IN  Apply(Build, Decompose(values))
            IN  IF Len(timeseries) < forecast_min_points
                THEN [error |-> "Insufficient data for forecasting"]
                ELSE Apply(Fit, Strict([t \in 1..Len(timeseries) |-> timeseries[t].value]))
    IN  Apply(Model, IF metric = "enrolments"
                     THEN get_enrolment_timeseries(enrol, forecast_months)
                     ELSE get_update_timeseries(upd, forecast_months))

----------------------------------------------------------------------------
(* Repository queries used by the engines *)

\* get_state_data: the rows by total_enrolments, descending.  (Rows of equal
\* total are kept in frame order: the order sort_values leaves them in is fixed
\* for a given frame.)
get_state_data(data) ==
    IF data = Null THEN <<>>
    ELSE LET Larger(a, b) == a.total_enrolments > b.total_enrolments
         IN  SortStable(data[1], Larger)

\* a share cut to whole percents instead of rounded to one decimal
PercentageTruncated(count, total) == ((count * 100) \div total) * 10

\* round(count / total * 100, 1) for total > 0, in tenths of a percent
Percentage(count, total) == RoundHalfEven(count * 1000, total)

\* get_update_types: the rows of the latest month; percentage in tenths of a
\* percent, Null for the NaN of a month whose counts sum to 0
get_update_types(data) ==
    IF data = Null THEN <<>>
    ELSE LET df == data[1][Len(data[1])]
             total == SumSeq(df.count)
         IN  [t \in 1..Len(update_types) |->
                [type |-> update_types[t].type, count |-> df.count[t],
                 percentage |-> IF total = 0 THEN Null
                                ELSE Some(Percentage(df.count[t], total))]]

\* get_demographics
get_demographics(data) == IF data = Null THEN [e \in {} |-> 0] ELSE data[1]

----------------------------------------------------------------------------
(* AnomalyDetectionEngine *)

\* severity_order.get(severity, 4)
severity_order(severity) ==
    CASE severity = "critical" -> 0
      [] severity = "high" -> 1
      [] severity = "medium" -> 2
      [] severity = "low" -> 3
      [] OTHER -> 4

RECURSIVE Digits(_)
\* the decimal digits of n >= 0
Digits(n) == IF n < 10 THEN <<n>> ELSE Append(Digits(n \div 10), n % 10)

\* f"{n:03d}": the digits, zero-padded on the left to at least three
Pad3(n) ==
    LET d == Digits(n)
    IN  IF Len(d) >= 3 THEN d ELSE [i \in 1..(3 - Len(d)) |-> 0] \o d

\* f"ANM-{datetime.now().strftime('%Y')}-{self._anomaly_counter:03d}"
FormatAnomalyId(today, counter) == [year |-> DateOf(today).year, seq |-> Pad3(counter)]

\* an increment that is lost
IncrementCounterLost(c) == c

\* self._anomaly_counter += 1
IncrementCounter(c) == c + 1

RECURSIVE CounterAfter(_, _)
\* the counter after k calls of _generate_anomaly_id
CounterAfter(c, k) == IF k = 0 THEN c ELSE IncrementCounter(CounterAfter(c, k - 1))

\* |z| > num/den for the z-score of v among values (population standard
\* deviation); never when the deviation is 0 (z is NaN, or taken as 0)
ZAbove(values, v, num, den) ==
    LET n == Len(values)
        S == SumSeq(values)
        Q == SumSeq([i \in 1..n |-> values[i] * values[i]])
        d == (n * v) - S
    IN  (n * Q) - (S * S) > 0 /\ den * den * d * d > num * num * ((n * Q) - (S * S))

\* the flagged months ordered by the size of their deviation, largest first
EnrolmentAnomaliesByScore(enrol, states) ==
    LET timeseries == get_enrolment_timeseries(enrol, detect_months)
        values == Strict([t \in 1..Len(timeseries) |-> timeseries[t].value])
        Flagged(i) == ZAbove(values, values[i], 5, 2)
        Further(i, j) == Abs((Len(values) * values[i]) - SumSeq(values))
                            > Abs((Len(values) * values[j]) - SumSeq(values))
        hits == SortStable(SelectSeq([i \in 1..Len(values) |-> i], Flagged), Further)
    IN  IF Len(timeseries) < 12 THEN <<>>
        ELSE [k \in 1..Len(hits) |->
                LET i == hits[k]
                    is_surge == Len(values) * values[i] > SumSeq(values)
                IN  [type |-> IF is_surge THEN "Enrolment Surge" ELSE "Enrolment Drop",
                     severity |-> IF ZAbove(values, values[i], 3, 1)
                                  THEN "high" ELSE "medium",
                     state |-> states[((i - 1) % Len(states)) + 1].name,
                     evidence |-> [expected_value |-> Trunc(SumSeq(values), Len(values)),
                                   actual_value |-> values[i],
                                   period |-> timeseries[i].period]]]

\* _detect_enrolment_anomalies before the ids and timestamps: one anomaly per
\* month whose |z| exceeds zscore_threshold = 2.5
EnrolmentAnomalies(enrol, states) ==
    LET timeseries == get_enrolment_timeseries(enrol, detect_months)
        values == Strict([t \in 1..Len(timeseries) |-> timeseries[t].value])
        Flagged(i) == ZAbove(values, values[i], 5, 2)
        hits == SelectSeq([i \in 1..Len(values) |-> i], Flagged)
    IN  IF Len(timeseries) < 12 THEN <<>>
        ELSE [k \in 1..Len(hits) |->
                LET i == hits[k]
                    is_surge == Len(values) * values[i] > SumSeq(values)
                IN  [type |-> IF is_surge THEN "Enrolment Surge" ELSE "Enrolment Drop",
                     severity |-> IF ZAbove(values, values[i], 3, 1)
                                  THEN "high" ELSE "medium",
                     state |-> states[((i - 1) % Len(states)) + 1].name,
                     evidence |-> [expected_value |-> Trunc(SumSeq(values), Len(values)),
                                   actual_value |-> values[i],
                                   period |-> timeseries[i].period]]]

\* the anomalies of the states placed before the one of the Address share
UpdateAnomaliesStatesFirst(upd, states) ==
    LET uts == get_update_types(upd)
        HighAddress(ut) == /\ ut.type = "Address" /\ ut.percentage # Null
                           /\ ut.percentage[1] > 450
        HighRate(state) == state.update_rate > 1000
        top == HeadN(states, 5)
        a == Indexes(uts, HighAddress)
        b == Indexes(top, HighRate)
    IN  [k \in 1..Len(b) |->
            [type |-> "Update Fatigue", severity |-> "low",
             state |-> top[b[k]].name,
             evidence |-> [update_rate |-> RoundHalfEven(top[b[k]].update_rate, 10),
                           state_code |-> top[b[k]].code]]]
        \o [k \in 1..Len(a) |->
            [type |-> "Update Fatigue", severity |-> "medium",
             state |-> "Multiple States",
             evidence |-> [update_type |-> uts[a[k]].type,
                           percentage |-> uts[a[k]].percentage[1]]]]

\* _detect_update_anomalies before the ids and timestamps
UpdateAnomalies(upd, states) ==
    LET uts == get_update_types(upd)
        HighAddress(ut) == /\ ut.type = "Address" /\ ut.percentage # Null
                           /\ ut.percentage[1] > 450
        HighRate(state) == state.update_rate > 1000
        top == HeadN(states, 5)
        a == Indexes(uts, HighAddress)
        b == Indexes(top, HighRate)
    IN  [k \in 1..Len(a) |->
            [type |-> "Update Fatigue", severity |-> "medium",
             state |-> "Multiple States",
             evidence |-> [update_type |-> uts[a[k]].type,
                           percentage |-> uts[a[k]].percentage[1]]]]
        \o [k \in 1..Len(b) |->
            [type |-> "Update Fatigue", severity |-> "low",
             state |-> top[b[k]].name,
             evidence |-> [update_rate |-> RoundHalfEven(top[b[k]].update_rate, 10),
                           state_code |-> top[b[k]].code]]]

\* _detect_geographic_anomalies before the ids and timestamps
GeographicAnomalies(states) ==
    LET urban_pcts == Strict([i \in 1..Len(states) |-> states[i].urban_pct])
        Outlier(state) == ZAbove(urban_pcts, state.urban_pct, 2, 1)
        hits == Indexes(states, Outlier)
    IN  [k \in 1..Len(hits) |->
            [type |-> "Geographic Disparity",
             severity |-> IF ZAbove(urban_pcts, states[hits[k]].urban_pct, 5, 2)
                          THEN "medium" ELSE "low",
             state |-> states[hits[k]].name,
             evidence |-> [state_urban_pct |-> states[hits[k]].urban_pct,
                           national_avg |-> RoundHalfEven(SumSeq(urban_pcts) * 10,
                                                          Len(states))]]]

\* _detect_demographic_anomalies before the ids and timestamps
DemographicAnomalies(demo) ==
    LET male_pct == get_demographics(demo).gender.Male
    IN  IF Abs(male_pct - 510) > 20
        THEN <<[type |-> "Demographic Imbalance", severity |-> "low",
                state |-> "National",
                evidence |-> [male_percentage |-> male_pct,
                              female_percentage |-> get_demographics(demo).gender.Female]]>>
        ELSE <<>>

\* one run of the four detectors before the ids and timestamps: the anomalies
\* in the order of their _generate_anomaly_id calls, and the positions that
\* survive the detectors' caps ([:3], [:2], [:2], none)
RunPlan(enrol, upd, states_data, demo) ==
    LET Capped(by) ==
            LET n1 == Len(by.e)
                n2 == n1 + Len(by.u)
                n3 == n2 + Len(by.g)
                Kept(k) == \/ k <= Min(3, n1)
                           \/ (n1 < k /\ k <= Min(n1 + 2, n2))
                           \/ (n2 < k /\ k <= Min(n2 + 2, n3))
                           \/ n3 < k
            IN  [found |-> by.e \o by.u \o by.g \o by.d,
                 kept |-> SelectSeq([k \in 1..(n3 + Len(by.d)) |-> k], Kept)]
        Detectors(states) ==
            Apply(Capped, [e |-> Strict(EnrolmentAnomalies(enrol, states)),
                           u |-> Strict(UpdateAnomalies(upd, states)),
                           g |-> Strict(GeographicAnomalies(states)),
                           d |-> DemographicAnomalies(demo)])
    IN  Apply(Detectors, get_state_data(states_data))

\* the dicts of a run whose k-th _generate_anomaly_id call returned ids[k]; the
\* clock is read in the order of the calls
Stamped(plan, ids, today) ==
    LET Stamp(p) == Strict([j \in 1..Len(p.kept) |->
                        p.found[p.kept[j]] @@ [id |-> ids[p.kept[j]],
                                               detected_at |-> <<today, p.kept[j]>>]])
    IN  Apply(Stamp, plan)

\* a list left in the order of generation
SortSkipped(anomalies) == anomalies

\* anomalies.sort(key=lambda x: (severity_order.get(x["severity"], 4), x["detected_at"]))
SortBySeverity(anomalies) ==
    LET Before(a, b) ==
            \/ severity_order(a.severity) < severity_order(b.severity)
            \/ /\ severity_order(a.severity) = severity_order(b.severity)
               /\ \/ a.detected_at[1] < b.detected_at[1]
                  \/ /\ a.detected_at[1] = b.detected_at[1]
                     /\ a.detected_at[2] < b.detected_at[2]
    IN  SortStable(anomalies, Before)

\* a run whose anomalies quote the running counter in their evidence
detect_all_anomalies_counted(enrol, upd, states_data, demo, c, today) ==
    LET Run(plan) ==
            LET ids == [k \in 1..Len(plan.found) |->
                           FormatAnomalyId(today, CounterAfter(c, k))]
                Counted(generated) ==
                    [k \in 1..Len(generated) |->
                        [generated[k] EXCEPT !.evidence = [sequence |-> c + k]]]
                Return(generated) ==
                    [generated |-> generated,
                     anomalies |-> SortBySeverity(generated),
                     counter |-> CounterAfter(c, Len(plan.found))]
            IN  Apply(Return, Strict(Counted(Stamped(plan, ids, today))))
    IN  Apply(Run, RunPlan(enrol, upd, states_data, demo))

\* detect_all_anomalies from counter c on day today, run without interruption:
\* the anomalies in the order they are generated (after each detector's cap),
\* the sorted list returned, and the counter left behind
detect_all_anomalies(enrol, upd, states_data, demo, c, today) ==
    LET Run(plan) ==
            LET ids == [k \in 1..Len(plan.found) |->
                           FormatAnomalyId(today, CounterAfter(c, k))]
                Return(generated) ==
                    [generated |-> generated,
                     anomalies |-> SortBySeverity(generated),
                     counter |-> CounterAfter(c, Len(plan.found))]
            IN  Apply(Return, Stamped(plan, ids, today))
    IN  Apply(Run, RunPlan(enrol, upd, states_data, demo))

\* one detector called on its own from counter c on day today: `found` are its
\* anomalies before the ids and timestamps, `cap` the length of the slice it
\* returns; every anomaly found takes an id, returned or not
DetectorRun(found, cap, c, today) ==
    LET Run(all) ==
            [anomalies |-> HeadN([k \in 1..Len(all) |->
                                    all[k] @@ [id |-> FormatAnomalyId(today, CounterAfter(c, k)),
                                               detected_at |-> <<today, k>>]], cap),
             counter |-> CounterAfter(c, Len(all))]
    IN  Apply(Run, Strict(found))

\* _detect_enrolment_anomalies: anomalies[:3]
detect_enrolment_anomalies(enrol, states_data, c, today) ==
    LET Detect(states) == DetectorRun(EnrolmentAnomalies(enrol, states), 3, c, today)
    IN  Apply(Detect, get_state_data(states_data))

\* _detect_update_anomalies: anomalies[:2]
detect_update_anomalies(upd, states_data, c, today) ==
    LET Detect(states) == DetectorRun(UpdateAnomalies(upd, states), 2, c, today)
    IN  Apply(Detect, get_state_data(states_data))

----------------------------------------------------------------------------
(* AnalyticsService: update analytics and geography *)

\* seasonal indices from the sum of a month instead of its average
CalculateSeasonalPatternsOfSums(timeseries) ==
    LET n == Len(timeseries)
        total == SumSeq([t \in 1..n |-> timeseries[t].value])
        Of(m) == {t \in 1..n : timeseries[t].period[2] = m}
        Present(m) == Of(m) # {}
        months == SelectSeq([m \in 1..12 |-> m], Present)
    IN  [k \in 1..Len(months) |->
            LET m == months[k]
                sum == SumSeq([t \in 1..n |-> IF t \in Of(m) THEN timeseries[t].value ELSE 0])
            IN  [month_num |-> m,
                 index |-> IF total = 0 THEN Null
                           ELSE Some(RoundHalfEven(sum * n * 1000, total))]]

\* _calculate_seasonal_patterns: per calendar month present in the series,
\* index = round(sum / count / overall_avg, 3), in thousandths
CalculateSeasonalPatterns(timeseries) ==
    LET n == Len(timeseries)
        total == SumSeq([t \in 1..n |-> timeseries[t].value])
        Of(m) == {t \in 1..n : timeseries[t].period[2] = m}
        Present(m) == Of(m) # {}
        months == SelectSeq([m \in 1..12 |-> m], Present)
    IN  [k \in 1..Len(months) |->
            LET m == months[k]
                sum == SumSeq([t \in 1..n |-> IF t \in Of(m) THEN timeseries[t].value ELSE 0])
            IN  [month_num |-> m,
                 index |-> IF total = 0 THEN Null
                           ELSE Some(RoundHalfEven(sum * n * 1000,
                                                   Cardinality(Of(m)) * total))]]

\* _calculate_update_fatigue; jitter: the np.random.uniform(0, 0.05) draws in
\* 1/10000, the k-th district taking jitter[1 + (k - 1) mod Len(jitter)];
\* scores in hundredths
CalculateUpdateFatigue(states_data, jitter) ==
    LET Tired(state) == state.update_rate > 800
        Higher(a, b) == a.score > b.score
        Districts(top) ==
            LET hits == Indexes(top, Tired)
            IN  Strict([k \in 1..(2 * Len(hits)) |->
                    LET state == top[hits[(k + 1) \div 2]]
                        score == state.update_rate + jitter[1 + ((k - 1) % Len(jitter))]
                    IN  [district |-> <<state.name, 2 - (k % 2)>>, state |-> state.name,
                         score |-> RoundHalfEven(Min(10000, score * 8), 100)]])
        Index(high_fatigue_districts) ==
            LET scores == [k \in 1..Len(high_fatigue_districts) |->
                              high_fatigue_districts[k].score]
            IN  [national_index |-> IF Len(scores) = 0 THEN 72
                                    ELSE RoundHalfEven(SumSeq(scores), Len(scores)),
                 high_fatigue_districts |-> high_fatigue_districts,
                 trend |-> "increasing"]
        Top5(districts) == Apply(Index, HeadN(SortStable(districts, Higher), 5))
        Fatigue(top) == Apply(Top5, Districts(top))
    IN  Apply(Fatigue, HeadN(get_state_data(states_data), 10))

\* get_update_analytics.  (The update series is never empty and never starts
\* at 0: both would raise in the summary.)
get_update_analytics(upd, states_data, jitter) ==
    LET Summary(uts, update_timeseries) ==
            LET n == Len(update_timeseries)
                total == SumSeq([t \in 1..n |-> update_timeseries[t].value])
                first == update_timeseries[1].value
                last == update_timeseries[n].value
            IN  [total_monthly_average |-> Trunc(total, n),
                 most_common_type |-> IF Len(uts) > 0 THEN uts[1].type ELSE "Address",
                 growth_rate |-> IF last >= first
                                 THEN RoundHalfEven((last - first) * 1000, first)
                                 ELSE -RoundHalfEven((first - last) * 1000, first)]
        Analytics(got) ==
            [update_types |-> got.uts,
             timeseries |-> got.update_timeseries,
             seasonal_patterns |-> CalculateSeasonalPatterns(got.update_timeseries),
             update_fatigue_index |-> CalculateUpdateFatigue(states_data, jitter),
             summary |-> Summary(got.uts, got.update_timeseries)]
    IN  Apply(Analytics, [uts |-> Strict(get_update_types(upd)),
                          update_timeseries |-> get_update_timeseries(upd, 24)])

\* get_geography_data; normalized is the fraction <<value, largest value>>
get_geography_data(states_data) ==
    LET Bigger(a, b) == a.value > b.value
        More(a, b) == a.total_enrolments > b.total_enrolments
        Geography(states) ==
            LET n == Len(states)
                totals == {states[i].total_enrolments : i \in 1..n}
                largest == IF n = 0 THEN 0
                           ELSE CHOOSE v \in totals : \A w \in totals : w <= v
                Heatmap(top) ==
                    Strict([i \in 1..n |->
                        [code |-> states[i].code, name |-> states[i].name,
                         value |-> states[i].total_enrolments,
                         normalized |-> <<states[i].total_enrolments, top>>]])
                First(i) == \A j \in 1..(i - 1) : states[j].region # states[i].region
                Regions(firsts) ==
                    Strict([k \in 1..Len(firsts) |->
                        LET In(i) == states[i].region = states[firsts[k]].region
                        IN  [region |-> states[firsts[k]].region,
                             total_enrolments |->
                                 SumSeq([i \in 1..n |->
                                     IF In(i) THEN states[i].total_enrolments ELSE 0]),
                             state_count |-> Cardinality({i \in 1..n : In(i)})]])
            IN  IF n > 0 /\ largest = 0
                \* total_enrolments / max(...) of two int zeros, line 246
                THEN [raised |-> "ZeroDivisionError"]
                ELSE
                [heatmap |-> [data |-> SortStable(Apply(Heatmap, largest), Bigger),
                              total |-> SumSeq([i \in 1..n |-> states[i].total_enrolments])],
                 states |-> [i \in 1..n |->
                                [code |-> states[i].code, name |-> states[i].name,
                                 region |-> states[i].region,
                                 enrolments |-> states[i].total_enrolments,
                                 growth |-> states[i].yoy_growth,
                                 urban_pct |-> states[i].urban_pct]],
                 by_region |-> SortStable(Apply(Regions,
                                                SelectSeq([i \in 1..n |-> i], First)),
                                          More)]
    IN  Apply(Geography, get_state_data(states_data))

----------------------------------------------------------------------------
(* ForecastingEngine: capacity planning *)

\* the enrolments one unit of the model's series stands for
enrolment_unit == 500 * 1000

\* monthly_capacity = 52387 * 150 * 25
monthly_capacity == 196451250

\* _get_capacity_recommendation: which of the four messages, with the two
\* numbers the critical one quotes
CapacityRecommendation(first, gap) ==
    IF gap > 1000000
    THEN [level |-> "critical", centres |-> gap \div 100000, throughput |-> gap \div 10000]
    ELSE IF first * enrolment_unit * 10 > monthly_capacity * 9
    THEN [level |-> "high", centres |-> 0, throughput |-> 0]
    ELSE IF first * enrolment_unit * 4 > monthly_capacity * 3
    THEN [level |-> "moderate", centres |-> 0, throughput |-> 0]
    ELSE [level |-> "adequate", centres |-> 0, throughput |-> 0]

\* _get_regional_capacity with the status taken from the utilization it
\* reports, stressed above 0.85
GetRegionalCapacityOfReported(draws) ==
    LET regions == <<"North", "South", "East", "West", "Central", "Northeast">>
    IN  [r \in 1..Len(regions) |->
            LET d == draws[1 + ((r - 1) % Len(draws))]
            IN  [region |-> regions[r],
                 current_capacity |-> d.base_capacity,
                 predicted_demand |-> MulDiv(d.base_capacity,
                                             d.utilization * (1000 + d.swing), 1000000),
                 utilization |-> RoundHalfEven(d.utilization, 10),
                 status |-> IF RoundHalfEven(d.utilization, 10) > 85
                            THEN "stressed" ELSE "adequate"]]

\* _get_regional_capacity; draws: the random draws, region r taking
\* draws[1 + (r - 1) mod Len(draws)] = [base_capacity, utilization (1/1000),
\* swing (1/1000)]; the reported utilization in hundredths
GetRegionalCapacity(draws) ==
    LET regions == <<"North", "South", "East", "West", "Central", "Northeast">>
    IN  [r \in 1..Len(regions) |->
            LET d == draws[1 + ((r - 1) % Len(draws))]
            IN  [region |-> regions[r],
                 current_capacity |-> d.base_capacity,
                 predicted_demand |-> MulDiv(d.base_capacity,
                                             d.utilization * (1000 + d.swing), 1000000),
                 utilization |-> RoundHalfEven(d.utilization, 10),
                 status |-> IF d.utilization < 850 THEN "adequate" ELSE "stressed"]]

\* get_capacity_forecast with the gap taken from the first forecast period
\* instead of the peak
GetCapacityForecastGapOfFirst(enrolment_forecast, update_forecast, draws) ==
    LET Capacity(predicted_peaks) ==
            LET n == Len(predicted_peaks)
                peak_demand == CHOOSE v \in {predicted_peaks[i] : i \in 1..n} :
                                  \A i \in 1..n : predicted_peaks[i] <= v
                gap == (predicted_peaks[1] * enrolment_unit) - monthly_capacity
            IN  [capacity_analysis |->
                    [current_capacity |-> monthly_capacity,
                     current_utilization |->
                         RoundHalfEven(predicted_peaks[1] * (enrolment_unit \div 1250) * 100,
                                       monthly_capacity \div 1250),
                     predicted_demand_peak |-> peak_demand,
                     capacity_gap |-> Max(0, gap),
                     recommendation |-> CapacityRecommendation(predicted_peaks[1], gap)],
                 by_region |-> GetRegionalCapacity(draws),
                 forecast |-> [enrolments |-> enrolment_forecast,
                               updates |-> update_forecast]]
        Peaks(points) ==
            IF Len(points) = 0 THEN [error |-> "Unable to generate capacity forecast"]
            ELSE Apply(Capacity, Strict([i \in 1..Len(points) |-> points[i].predicted]))
    IN  Apply(Peaks, IF "forecast" \in DOMAIN enrolment_forecast
                     THEN enrolment_forecast.forecast ELSE <<>>)

\* get_capacity_forecast after its two generate_forecast calls;
\* current_utilization in hundredths (1250 divides both enrolment_unit and
\* monthly_capacity)
get_capacity_forecast(enrolment_forecast, update_forecast, draws) ==
    LET Capacity(predicted_peaks) ==
            LET n == Len(predicted_peaks)
                peak_demand == CHOOSE v \in {predicted_peaks[i] : i \in 1..n} :
                                  \A i \in 1..n : predicted_peaks[i] <= v
                gap == (peak_demand * enrolment_unit) - monthly_capacity
            IN  [capacity_analysis |->
                    [current_capacity |-> monthly_capacity,
                     current_utilization |->
                         RoundHalfEven(predicted_peaks[1] * (enrolment_unit \div 1250) * 100,
                                       monthly_capacity \div 1250),
                     predicted_demand_peak |-> peak_demand,
                     capacity_gap |-> Max(0, gap),
                     recommendation |-> CapacityRecommendation(predicted_peaks[1], gap)],
                 by_region |-> GetRegionalCapacity(draws),
                 forecast |-> [enrolments |-> enrolment_forecast,
                               updates |-> update_forecast]]
        Peaks(points) ==
            IF Len(points) = 0 THEN [error |-> "Unable to generate capacity forecast"]
            ELSE Apply(Capacity, Strict([i \in 1..Len(points) |-> points[i].predicted]))
    IN  Apply(Peaks, IF "forecast" \in DOMAIN enrolment_forecast
                     THEN enrolment_forecast.forecast ELSE <<>>)

----------------------------------------------------------------------------
(* Actions *)

\* no fetch_all_records call in progress
NoFetch == [pc |-> "idle", max_records |-> 0, all_records |-> <<>>, offset |-> 0,
            pages |-> <<>>]

engineVars == <<anomaly_counter, horizon, now, issued, thr, fetch>>

\* a call: the entry point and its arguments
Call(op, args) == [op |-> op, args |-> args]

\* no call yet
NoCall == [op |-> "none", args |-> <<>>, at |-> 0]

\* the bookkeeping of a call c that returns r on the day `now`: prev keeps the
\* result and the day of the call before it when that was the same call
Record(c, r) ==
    /\ call' = [op |-> c.op, args |-> c.args, at |-> now]
    /\ result' = r
    /\ prev' = IF call.op = c.op /\ call.args = c.args
               THEN Some([result |-> result, now |-> call.at]) ELSE Null

\* the days the clock is read on: 2024-12-15, 2025-01-31, 2026-11-03
Clock == {1810, 1857, 2498}

FirstDay == CHOOSE d \in Clock : \A e \in Clock : d <= e

\* the state before the repository singleton is constructed
Init ==
    /\ pc = "new"
    /\ enrolment_data = Null /\ update_data = Null /\ demographics_data = Null
    /\ state_data = Null /\ api_data = Null
    /\ data_source = "simulated" /\ total_api_records = 0 /\ last_refresh = Null
    /\ anomaly_counter = 0
    /\ horizon = default_horizon
    /\ now = FirstDay
    /\ call = NoCall /\ result = Null
    /\ prev = Null
    /\ issued = <<>>
    /\ thr = <<>>
    /\ fetch = NoFetch

\* the assignment of a constructed repository to the state
Install(S) ==
    /\ pc' = IF S.raised THEN "raised" ELSE "ready"
    /\ enrolment_data' = S.enrolment_data
    /\ update_data' = S.update_data
    /\ demographics_data' = S.demographics_data
    /\ state_data' = S.state_data
    /\ api_data' = S.api_data
    /\ data_source' = S.data_source
    /\ total_api_records' = S.total_api_records
    /\ last_refresh' = Some(now)       \* line 170

\* aadhaar_repository = AadhaarDataRepository(), for a response among
\* `responses` and random draws among `randoms`
Construct(responses, randoms) ==
    /\ pc = "new"
    /\ \E resp \in responses, rnd \in randoms : Install(InitializeData(resp, rnd))
    /\ Record(Call("AadhaarDataRepository", <<>>), Null)
    /\ UNCHANGED engineVars

\* the months arguments explored
QueryMonths == {0, 1, 13, 24, NumMonths + 1}

\* a get_enrolment_timeseries that keeps the tail it read as the stored frame
GetEnrolmentTimeseriesInPlace ==
    /\ pc = "ready"
    /\ \E months \in QueryMonths :
          /\ Record(Call("get_enrolment_timeseries", <<months>>),
                    Some(get_enrolment_timeseries(enrolment_data, months)))
          /\ enrolment_data' = Some(TailN(enrolment_data[1], months))
    /\ UNCHANGED <<pc, update_data, demographics_data, state_data, api_data, data_source,
                   total_api_records, last_refresh, engineVars>>

\* a call of get_enrolment_timeseries
GetEnrolmentTimeseries ==
    /\ pc = "ready"
    /\ \E months \in QueryMonths :
          Record(Call("get_enrolment_timeseries", <<months>>),
                 Some(get_enrolment_timeseries(enrolment_data, months)))
    /\ UNCHANGED <<pc, repoVars, engineVars>>

Next ==
    \/ Construct(FailedResponses \cup SeriesResponses \cup FrameResponses, EnrolmentDraws)
    \/ GetEnrolmentTimeseries

Spec == Init /\ [][Next]_vars

----------------------------------------------------------------------------
(* Claims about the repository *)

Populated ==
    /\ enrolment_data # Null /\ update_data # Null
    /\ demographics_data # Null /\ state_data # Null

\* C1: whatever the live fetch does (records, no records, an error result, an
\* exception in the fetch or while the records are processed), construction
\* does not raise and leaves the enrolment series, the update series, the
\* demographics and the state data populated.
C1_AlwaysUsable == pc # "raised" /\ (pc = "ready" => Populated)

\* C1 witness: construction finished on the fallback after the response had
\* been accepted (an exception while the fetched records were processed).
C1_Witness == pc = "ready" /\ api_data # Null /\ data_source = "simulated" /\ Populated

\* rows i-1, i of a series of records with fields value and cumulative
ChainAt(vals, cums, i) == cums[i] = cums[i - 1] + vals[i] /\ cums[i] >= cums[i - 1]

\* C9: in every stored enrolment series (synthetic or API-derived) and in every
\* slice get_enrolment_timeseries returns, cumulative[i] = cumulative[i-1] +
\* value[i] for i > 0 and cumulative never decreases.
C9_CumulativeChain ==
    /\ enrolment_data # Null =>
          LET df == enrolment_data[1]
          IN  \A i \in 2..Len(df) :
                 ChainAt([k \in 1..Len(df) |-> df[k].enrolments],
                         [k \in 1..Len(df) |-> df[k].cumulative], i)
    /\ call.op = "get_enrolment_timeseries" =>
          LET ts == result[1]
          IN  \A i \in 2..Len(ts) :
                 ChainAt([k \in 1..Len(ts) |-> ts[k].value],
                         [k \in 1..Len(ts) |-> ts[k].cumulative], i)

\* C9 witness: a slice of an API-derived series with several points whose
\* cumulative column grows.
C9_Witness ==
    /\ call.op = "get_enrolment_timeseries" /\ data_source = "Data.gov.in API"
    /\ Len(result[1]) >= 13
    /\ result[1][13].cumulative > result[1][1].cumulative

\* yoy (a fraction, in percent) is the percent change from value q to value v
IsPctChange(yoy, v, q) == yoy[2] # 0 /\ yoy[1] * q = (v - q) * 100 * yoy[2]

\* C10: yoy_growth is 0 for the first 12 points of every generated series; for
\* a later point it is the percent change against the value of the same
\* calendar month one year before, (value[i] - value[i-12]) / value[i-12] * 100.
C10_YoySameMonthLastYear ==
    enrolment_data # Null =>
        LET df == enrolment_data[1]
        IN  \A i \in 1..Len(df) :
               IF i <= 12 THEN df[i].yoy_growth = <<0, 1>>
               ELSE /\ df[i - 12].month = df[i].month - 12
                    /\ df[i - 12].enrolments # 0 =>
                          IsPctChange(df[i].yoy_growth, df[i].enrolments,
                                      df[i - 12].enrolments)

----------------------------------------------------------------------------
(* Forecasting: specification and claims *)

InitForecast ==
    /\ pc = "new"
    /\ enrolment_data = Null /\ update_data = Null /\ demographics_data = Null
    /\ state_data = Null /\ api_data = Null
    /\ data_source = "simulated" /\ total_api_records = 0 /\ last_refresh = Null
    /\ anomaly_counter = 0
    /\ horizon \in 0..MaxHorizon
    /\ now \in Clock
    /\ call = NoCall /\ result = Null
    /\ prev = Null
    /\ issued = <<>>
    /\ thr = <<>>
    /\ fetch = NoFetch

\* responses whose monthly series are around the 12 points forecasting needs
ForecastResponses ==
    {OkResponse(AllCols, RowsOf(n, 0, pattern, "known", FALSE), Some(3)) :
        n \in 10..MaxApiMonths, pattern \in {"flat", "spike", "zeros", "early"}}

\* random draws for the forecasts: none, or one noisy month
ForecastDraws == {NoRandom, [NoRandom EXCEPT !.en = {<<47, -15>>}]}

\* a call of forecasting_engine.generate_forecast(metric)
GenerateForecast ==
    /\ pc = "ready"
    /\ \E metric \in {"enrolments", "updates"} :
          Record(Call("generate_forecast", <<metric>>),
                 Some(generate_forecast(metric, enrolment_data, update_data,
                                        horizon, now)))
    /\ UNCHANGED <<pc, repoVars, engineVars>>

NextForecast ==
    \/ Construct(FailedResponses \cup ForecastResponses, ForecastDraws)
    \/ GenerateForecast

SpecForecast == InitForecast /\ [][NextForecast]_vars

\* the number of historical points generate_forecast(metric) reads
PointsRead(metric) ==
    Min(forecast_months,
        IF metric = "enrolments" THEN Len(enrolment_data[1]) ELSE Len(update_data[1]))

\* C2: with fewer than 12 historical points generate_forecast returns the
\* insufficient-data error result, without forecast, historical or metrics
\* fields; with 12 or more it returns a forecast list as long as the horizon.
C2_InsufficientOrFullHorizon ==
    call.op = "generate_forecast" =>
        IF PointsRead(call.args[1]) < 12
        THEN /\ DOMAIN result[1] = {"error"}
             /\ result[1].error = "Insufficient data for forecasting"
        ELSE /\ "error" \notin DOMAIN result[1]
             /\ Len(result[1].forecast) = horizon

\* C2 witness: a forecast from exactly 12 points, of the default length.
C2_Witness ==
    /\ call.op = "generate_forecast" /\ PointsRead(call.args[1]) = 12
    /\ horizon = default_horizon /\ Len(result[1].forecast) = default_horizon

\* the forecast points of the latest generate_forecast call (none on an error)
Points == IF call.op = "generate_forecast" /\ "forecast" \in DOMAIN result[1]
          THEN result[1].forecast ELSE <<>>

\* C3: every forecast point has 0 <= lower <= predicted <= upper.
C3_OrderedBounds ==
    \A i \in 1..Len(Points) :
        /\ 0 <= Points[i].lower
        /\ Points[i].lower <= Points[i].predicted
        /\ Points[i].predicted <= Points[i].upper

\* C3 witness: a point whose lower bound was negative before the clamp.
C3_Witness ==
    \E i \in 1..Len(Points) :
        Points[i].raw_lower < 0 /\ Points[i].lower = 0 /\ Points[i].upper > 0

\* C4 as claimed: the width upper - lower of the emitted points strictly
\* increases with the step index.
C4_EmittedWidthGrows ==
    \A i \in 1..(Len(Points) - 1) :
        Points[i + 1].upper - Points[i + 1].lower > Points[i].upper - Points[i].lower

\* C4 as amended: before the clamp at zero and the truncation to integers the
\* width strictly increases with the step index when the residual standard
\* deviation is positive, and is 0 at every step when it is 0.
C4_RawWidthGrows ==
    \A i \in 1..(Len(Points) - 1) :
        LET w1 == Points[i].raw_upper - Points[i].raw_lower
            w2 == Points[i + 1].raw_upper - Points[i + 1].raw_lower
        IN  IF w1 = 0 THEN w2 = 0 ELSE w2 > w1

\* C4 witness: consecutive steps whose raw width grows from a positive value
\* while the emitted width does not, the lower bound being clamped at zero.
C4_Witness ==
    \E i \in 1..(Len(Points) - 1) :
        /\ Points[i].raw_upper - Points[i].raw_lower > 0
        /\ Points[i + 1].raw_upper - Points[i + 1].raw_lower
              > Points[i].raw_upper - Points[i].raw_lower
        /\ Points[i + 1].raw_lower < 0
        /\ Points[i + 1].upper - Points[i + 1].lower
              <= Points[i].upper - Points[i].lower

----------------------------------------------------------------------------
(* Anomaly detection, one call at a time: specification and claims *)

\* responses for the detectors: no API data, a spike among 13 months, a flat
\* year, and a series too short for the z-scores
DetectResponses ==
    FailedResponses
    \cup {OkResponse(AllCols, RowsOf(n, 0, pattern, "known", FALSE), Some(3)) :
            n \in {11, MaxApiMonths}, pattern \in {"flat", "spike"}}

\* the uniform draws of a state row that the detectors react to
HotDraws ==
    {[BaseDraw EXCEPT !.update_rate = r, !.urban_pct = u] :
        r \in {800, 1100}, u \in {45, 70}} \ {BaseDraw}

\* random draws for the detectors: the first k rows draw a hot row, and the
\* latest month's Address count may draw 40% above its share
DetectDraws ==
    {[NoRandom EXCEPT !.draws = [hot |-> 1..k, draw |-> d], !.tn = t] :
        k \in 0..MaxHotRank, d \in HotDraws,
        t \in {{}, {<<((NumMonths - 1) * 10) + 1, 40>>}}}

\* a call of anomaly_engine.detect_all_anomalies()
DetectAllAnomalies ==
    /\ pc = "ready"
    /\ anomaly_counter < MaxCounter
    /\ \E run \in {detect_all_anomalies(enrolment_data, update_data, state_data,
                                          demographics_data, anomaly_counter, now)} :
          /\ Record(Call("detect_all_anomalies", <<>>), Some(run.anomalies))
          /\ anomaly_counter' = run.counter
          /\ issued' = issued \o [k \in 1..Len(run.generated) |-> run.generated[k].id]
    /\ UNCHANGED <<pc, repoVars, fetch, horizon, now, thr>>

\* the clock moves on to a later day
Tick ==
    /\ pc = "ready"
    /\ \E d \in Clock : d > now /\ now' = d
    /\ UNCHANGED <<pc, repoVars, fetch, anomaly_counter, horizon, issued, thr, call, result, prev>>

NextDetect ==
    \/ Construct(DetectResponses, DetectDraws)
    \/ DetectAllAnomalies
    \/ Tick

SpecDetect == Init /\ [][NextDetect]_vars

\* the list the latest detect_all_anomalies call returned
Detected == IF call.op = "detect_all_anomalies" THEN result[1] ELSE <<>>

\* C5: the list detect_all_anomalies returns is ordered by severity rank
\* (critical, high, medium, low): no anomaly follows one of a lower severity.
C5_SortedBySeverity ==
    \A i, j \in 1..Len(Detected) :
        i < j => severity_order(Detected[i].severity) <= severity_order(Detected[j].severity)

\* C5 witness: a returned list in which an anomaly generated later, by a later
\* detector, precedes a less severe one generated earlier.
C5_Witness ==
    \E i, j \in 1..Len(Detected) :
        /\ i < j
        /\ Detected[i].detected_at[2] > Detected[j].detected_at[2]
        /\ severity_order(Detected[i].severity) < severity_order(Detected[j].severity)

RECURSIVE FromDigits(_)
\* the number a digit string denotes
FromDigits(d) ==
    IF Len(d) = 0 THEN 0 ELSE (10 * FromDigits(SubSeq(d, 1, Len(d) - 1))) + d[Len(d)]

\* C6: across calls made one after another no anomaly id is issued twice, and
\* the sequence number in the id strictly increases in order of generation.
C6_IdsUniqueAndIncreasing ==
    /\ \A i, j \in 1..Len(issued) :
          i < j => /\ issued[i] # issued[j]
                   /\ FromDigits(issued[i].seq) < FromDigits(issued[j].seq)
    /\ \A i \in 1..Len(Detected) : \E k \in 1..Len(issued) : issued[k] = Detected[i].id

\* C6 witness: two detection calls in a row, each of which returned anomalies.
C6_Witness ==
    /\ call.op = "detect_all_anomalies" /\ prev # Null
    /\ Len(prev[1].result[1]) > 0 /\ Len(result[1]) > 0
    /\ Len(issued) = Len(prev[1].result[1]) + Len(result[1])

----------------------------------------------------------------------------
(* Anomaly detection, two callers at once: specification and claim          *)
(*                                                                         *)
(* A caller can be preempted between the statements of                     *)
(* _generate_anomaly_id: after `self._anomaly_counter += 1`, the f-string  *)
(* calls datetime.now().strftime and only then reads self._anomaly_counter *)
(* again.                                                                  *)

Threads == {1, 2}

InitRace ==
    /\ pc = "new"
    /\ enrolment_data = Null /\ update_data = Null /\ demographics_data = Null
    /\ state_data = Null /\ api_data = Null
    /\ data_source = "simulated" /\ total_api_records = 0 /\ last_refresh = Null
    /\ anomaly_counter = 0
    /\ horizon = default_horizon
    /\ now = FirstDay
    /\ call = NoCall /\ result = Null
    /\ prev = Null
    /\ issued = <<>>
    /\ thr = [t \in Threads |-> [pc |-> "idle", ids |-> <<>>]]
    /\ fetch = NoFetch

RaceResponses ==
    {[kind |-> "error", cols |-> {}, rows |-> <<>>, total |-> Some(0)],
     OkResponse(AllCols, RowsOf(MaxApiMonths, 0, "spike", "known", FALSE), Some(3))}

RaceDraws ==
    {[NoRandom EXCEPT !.draws = [hot |-> 1..k, draw |-> d]] : k \in 0..1, d \in HotDraws}

ThePlan == RunPlan(enrolment_data, update_data, state_data, demographics_data)

\* caller t enters detect_all_anomalies
BeginDetect(t) ==
    /\ pc = "ready" /\ thr[t].pc = "idle"
    /\ thr' = [thr EXCEPT ![t].pc = IF Len(ThePlan.found) = 0 THEN "done"
                                    ELSE "increment"]
    /\ UNCHANGED <<pc, repoVars, fetch, anomaly_counter, horizon, now, issued, call, result, prev>>

\* caller t runs `self._anomaly_counter += 1`
IncrementStep(t) ==
    /\ thr[t].pc = "increment"
    /\ anomaly_counter' = IncrementCounter(anomaly_counter)
    /\ thr' = [thr EXCEPT ![t].pc = "format"]
    /\ UNCHANGED <<pc, repoVars, fetch, horizon, now, issued, call, result, prev>>

\* caller t evaluates the f-string, reading the counter as it is now
FormatStep(t) ==
    /\ thr[t].pc = "format"
    /\ thr' = [thr EXCEPT
                ![t].ids = Append(@, FormatAnomalyId(now, anomaly_counter)),
                ![t].pc = IF Len(thr[t].ids) + 1 = Len(ThePlan.found) THEN "done"
                          ELSE "increment"]
    /\ UNCHANGED <<pc, repoVars, fetch, anomaly_counter, horizon, now, issued, call, result, prev>>

\* caller t sorts and returns its list
EndDetect(t) ==
    /\ pc = "ready" /\ thr[t].pc = "done"
    /\ \E generated \in {Stamped(ThePlan, thr[t].ids, now)} :
          /\ Record(Call("detect_all_anomalies", <<>>), Some(SortBySeverity(generated)))
          /\ issued' = issued \o [k \in 1..Len(generated) |-> generated[k].id]
    /\ thr' = [thr EXCEPT ![t].pc = "returned"]
    /\ UNCHANGED <<pc, repoVars, fetch, anomaly_counter, horizon, now>>

NextRace ==
    \/ Construct(RaceResponses, RaceDraws)
    \/ \E t \in Threads : BeginDetect(t)
    \/ \E t \in Threads : IncrementStep(t)
    \/ \E t \in Threads : FormatStep(t)
    \/ \E t \in Threads : EndDetect(t)

SpecRace == InitRace /\ [][NextRace]_vars

\* C8: when two detect_all_anomalies calls run concurrently, their steps
\* interleaved, no id is returned twice, within a call or across the calls.
C8_NoDuplicateIds ==
    \A i, j \in 1..Len(issued) : i < j => issued[i] # issued[j]

----------------------------------------------------------------------------
(* Repeated calls of the entry points: specification and claim *)

RepeatResponses ==
    {[kind |-> "error", cols |-> {}, rows |-> <<>>, total |-> Some(0)],
     OkResponse(AllCols, RowsOf(MaxApiMonths, 0, "spike", "known", FALSE), Some(3)),
     OkResponse(AllCols, RowsOf(11, 0, "flat", "known", FALSE), Some(3))}

RepeatDraws ==
    {[NoRandom EXCEPT !.draws = [hot |-> 1..2,
                                 draw |-> [BaseDraw EXCEPT !.update_rate = 1100,
                                                           !.urban_pct = 70]]]}

\* the np.random.uniform(0, 0.05) draws of one fatigue computation
Jitters == {<<0>>, <<0, 400>>}

\* the random draws of one regional capacity computation
CapacityDraws ==
    LET a == [base_capacity |-> 1500000, utilization |-> 700, swing |-> 0]
        b == [base_capacity |-> 2499999, utilization |-> 850, swing |-> 200]
    IN  {<<a>>, <<a, b>>}

\* a call of analytics_service.get_update_analytics()
GetUpdateAnalytics ==
    /\ pc = "ready"
    /\ \E jitter \in Jitters :
          Record(Call("get_update_analytics", <<>>),
                 Some(get_update_analytics(update_data, state_data, jitter)))
    /\ UNCHANGED <<pc, repoVars, engineVars>>

\* a call of analytics_service.get_geography_data()
GetGeographyData ==
    /\ pc = "ready"
    /\ Record(Call("get_geography_data", <<>>), Some(get_geography_data(state_data)))
    /\ UNCHANGED <<pc, repoVars, engineVars>>

\* a call of forecasting_engine.get_capacity_forecast()
GetCapacityForecast ==
    /\ pc = "ready"
    /\ \E enrolment_forecast \in
              {generate_forecast("enrolments", enrolment_data, update_data, horizon, now)},
          update_forecast \in
              {generate_forecast("updates", enrolment_data, update_data, horizon, now)},
          draws \in CapacityDraws :
             Record(Call("get_capacity_forecast", <<>>),
                    Some(get_capacity_forecast(enrolment_forecast, update_forecast, draws)))
    /\ UNCHANGED <<pc, repoVars, engineVars>>

NextRepeat ==
    \/ Construct(RepeatResponses, RepeatDraws)
    \/ Tick
    \/ DetectAllAnomalies
    \/ GetUpdateAnalytics
    \/ GetGeographyData
    \/ GenerateForecast
    \/ GetCapacityForecast

SpecRepeat == Init /\ [][NextRepeat]_vars

\* a result without its wall-clock timestamps: detected_at of an anomaly,
\* last_trained of a forecast
Timeless(op, r) ==
    LET Forecast(f) == IF "model_info" \in DOMAIN f
                       THEN [f EXCEPT !.model_info.last_trained = Null] ELSE f
    IN  CASE op = "detect_all_anomalies" ->
                [k \in 1..Len(r) |-> [r[k] EXCEPT !.detected_at = Null]]
          [] op = "generate_forecast" -> Forecast(r)
          [] op = "get_capacity_forecast" ->
                IF "forecast" \in DOMAIN r
                THEN [r EXCEPT !.forecast.enrolments = Forecast(@),
                               !.forecast.updates = Forecast(@)]
                ELSE r
          [] OTHER -> r

\* the two calls compared: the latest and the one before it, the same entry
\* point with the same arguments, the clock reading the same day
Repeated(ops) == prev # Null /\ call.op \in ops /\ prev[1].now = now

----------------------------------------------------------------------------
(* Repository queries: specification and claims *)

\* the latest month of the synthetic update series
LatestMonth == NumMonths - 1

\* random draws that vary the update counts of the latest month
UpdateDraws ==
    {[NoRandom EXCEPT !.un = u, !.tn = t] :
        u \in NoiseSets(1, {LatestMonth}, {-9, 9}),
        t \in NoiseSets(MaxNoisyTypes,
                        {(LatestMonth * 10) + k : k \in 1..Len(update_types)}, {-30, 30})}

\* a call of get_update_types
GetUpdateTypes ==
    /\ pc = "ready"
    /\ Record(Call("get_update_types", <<>>), Some(get_update_types(update_data)))
    /\ UNCHANGED <<pc, repoVars, engineVars>>

\* a call of get_update_timeseries
GetUpdateTimeseries ==
    /\ pc = "ready"
    /\ \E months \in QueryMonths :
          Record(Call("get_update_timeseries", <<months>>),
                 Some(get_update_timeseries(update_data, months)))
    /\ UNCHANGED <<pc, repoVars, engineVars>>

\* the mean of a column as the fraction <<sum, number of rows>>
MeanOf(column) == <<SumSeq(column), Len(column)>>

\* round((recent - prev) / prev * 100, 1) of two means, as tenths over 10; the
\* float division by a zero mean gives inf or NaN, which round() returns as is
GrowthPct(recent, before) ==
    LET num == (recent[1] * before[2]) - (before[1] * recent[2])
        den == before[1] * recent[2]
    IN  IF den = 0 THEN (IF num = 0 THEN NaN ELSE Inf(IF num > 0 THEN 1 ELSE -1))
        ELSE <<RoundHalfEven(num * 1000, den), 10>>

\* the month of the first row holding the largest (sign 1) or smallest (sign
\* -1) enrolments: df.loc[df["enrolments"].idxmax(), "month"]
ExtremeMonth(df, sign) ==
    LET i == CHOOSE k \in 1..Len(df) :
                 /\ \A j \in 1..Len(df) : sign * df[j].enrolments <= sign * df[k].enrolments
                 /\ \A j \in 1..(k - 1) : df[j].enrolments # df[k].enrolments
    IN  Period(df[i].month)

\* get_trends; daily averages in enrolments and updates per day
get_trends(enrol, upd) ==
    LET Trends(of) ==
            LET recent_12m == MeanOf(TailN(of.enrolments, 12))
                prev_12m == MeanOf(HeadN(of.enrolments, 12))
                enough == upd # Null /\ Len(of.updates) >= 24
                update_recent == IF enough THEN MeanOf(TailN(of.updates, 12)) ELSE <<84, 1>>
                update_prev == IF enough THEN MeanOf(HeadN(of.updates, 12)) ELSE <<70, 1>>
            IN  [enrolment_growth_yoy |-> GrowthPct(recent_12m, prev_12m),
                 update_growth_yoy |-> GrowthPct(update_recent, update_prev),
                 daily_average_enrolments |->
                     Trunc(recent_12m[1] * 500000, recent_12m[2] * 30),
                 daily_average_updates |->
                     Trunc(update_recent[1] * 100000, update_recent[2] * 30),
                 peak_month |-> ExtremeMonth(of.df, 1),
                 lowest_month |-> ExtremeMonth(of.df, -1)]
        Frames(df) ==
            Apply(Trends,
                  [df |-> df,
                   enrolments |-> Strict([i \in 1..Len(df) |-> df[i].enrolments]),
                   updates |-> IF upd = Null THEN <<>>
                               ELSE Strict([i \in 1..Len(upd[1]) |-> SumSeq(upd[1][i].count)])])
    IN  IF enrol = Null THEN [e \in {} |-> 0]
        ELSE Apply(Frames, TailN(enrol[1], 24))

\* a call of get_trends
GetTrends ==
    /\ pc = "ready"
    /\ Record(Call("get_trends", <<>>), Some(get_trends(enrolment_data, update_data)))
    /\ UNCHANGED <<pc, repoVars, engineVars>>

\* round(float(x), 1) of a fraction: tenths over 10; inf and NaN stay
Round1(x) == IF x[2] = 0 THEN x ELSE <<RoundHalfEven(x[1] * 10, x[2]), 10>>

\* get_summary_stats; meta: the fields _data_source, _total_api_records and
\* _last_refresh.  (Enrolments in units of 500,000, updates of 100,000.)
get_summary_stats(enrol, upd, meta) ==
    LET latest == IF enrol = Null
                  THEN [cumulative |-> 2900, enrolments |-> 25, yoy_growth |-> <<85, 10>>]
                  ELSE enrol[1][Len(enrol[1])]
        total_updates == IF upd = Null THEN 0
                         ELSE IF Len(upd[1]) > 0 THEN SumSeq(upd[1][Len(upd[1])].count)
                         ELSE 80
    IN  [total_enrolments |-> latest.cumulative,
         total_updates |-> total_updates,
         active_centres |-> 52387,
         states_covered |-> 36,
         latest_monthly_enrolments |-> latest.enrolments,
         latest_monthly_updates |-> total_updates,
         enrolment_yoy_growth |-> Round1(latest.yoy_growth),
         data_source |-> meta.data_source,
         api_total_records |-> meta.total_api_records,
         last_refresh |-> meta.last_refresh]

\* get_api_metadata; api: self._api_data, whose title, org and updated_date
\* are passed on as they came
get_api_metadata(api, meta) ==
    [data_source |-> meta.data_source,
     total_records_available |-> meta.total_api_records,
     last_refresh |-> meta.last_refresh,
     api_title |-> IF api = Null THEN Null ELSE Some("title"),
     org |-> IF api = Null THEN Null ELSE Some("org"),
     updated_date |-> IF api = Null THEN Null ELSE Some("updated_date")]

\* the capacity rule chained with elif to the surge rule
GenerateAlertsExclusive(states) ==
    LET Surging(st) == st.yoy_growth > 150
        Loaded(st) == st.code \in {"DL", "MH", "KA", "TN"} /\ st.monthly_enrolments > 1000
        high_growth_states == SelectSeq(states, Surging)
        high_volume == SelectSeq(states, Loaded)
    IN  IF Len(high_growth_states) > 0
        THEN <<[type |-> "info", region |-> high_growth_states[1].name,
                growth |-> high_growth_states[1].yoy_growth, severity |-> "medium"]>>
        ELSE IF Len(high_volume) > 0
        THEN <<[type |-> "warning", region |-> high_volume[1].name, severity |-> "high"]>>
        ELSE <<>>

\* _generate_alerts (yoy_growth in tenths of a percent, monthly_enrolments in
\* thousands); region and growth are what the message quotes
GenerateAlerts(states) ==
    LET Surging(st) == st.yoy_growth > 150
        Loaded(st) == st.code \in {"DL", "MH", "KA", "TN"} /\ st.monthly_enrolments > 1000
        high_growth_states == SelectSeq(states, Surging)
        high_volume == SelectSeq(states, Loaded)
    IN  (IF Len(high_growth_states) > 0
         THEN <<[type |-> "info", region |-> high_growth_states[1].name,
                 growth |-> high_growth_states[1].yoy_growth, severity |-> "medium"]>>
         ELSE <<>>)
        \o (IF Len(high_volume) > 0
            THEN <<[type |-> "warning", region |-> high_volume[1].name, severity |-> "high"]>>
            ELSE <<>>)

\* get_overview_metrics on the day today
get_overview_metrics(enrol, upd, states_data, demo, meta, today) ==
    LET Faster(a, b) == a.yoy_growth > b.yoy_growth
        Overview(got) ==
            LET top_states == HeadN(SortStable(got.states, Faster), 5)
            IN  [summary |-> [total_enrolments |-> got.summary.total_enrolments,
                              total_updates |-> got.summary.total_updates,
                              active_centres |-> got.summary.active_centres,
                              states_covered |-> got.summary.states_covered],
                 trends |-> [enrolment_growth_yoy |-> got.trends.enrolment_growth_yoy,
                             update_growth_yoy |-> got.trends.update_growth_yoy,
                             daily_average_enrolments |-> got.trends.daily_average_enrolments,
                             daily_average_updates |-> got.trends.daily_average_updates],
                 distribution |->
                     [urban_rural_ratio |-> [urban |-> got.demographics.location.Urban,
                                             rural |-> got.demographics.location.Rural],
                      gender_split |-> [male |-> got.demographics.gender.Male,
                                        female |-> got.demographics.gender.Female]],
                 top_performing_states |->
                     [i \in 1..Len(top_states) |->
                         [state |-> top_states[i].name, code |-> top_states[i].code,
                          enrolments |-> top_states[i].total_enrolments,
                          growth |-> top_states[i].yoy_growth]],
                 alerts |-> GenerateAlerts(got.states),
                 metadata |-> [data_source |-> got.summary.data_source,
                               last_refresh |-> got.summary.last_refresh,
                               computed_at |-> today]]
    IN  Apply(Overview, [summary |-> get_summary_stats(enrol, upd, meta),
                         trends |-> get_trends(enrol, upd),
                         demographics |-> get_demographics(demo),
                         states |-> get_state_data(states_data)])

\* the fields get_summary_stats and get_api_metadata report as they are
Meta == [data_source |-> data_source, total_api_records |-> total_api_records,
         last_refresh |-> last_refresh]

\* a call of get_summary_stats
GetSummaryStats ==
    /\ pc = "ready"
    /\ Record(Call("get_summary_stats", <<>>),
              Some(get_summary_stats(enrolment_data, update_data, Meta)))
    /\ UNCHANGED <<pc, repoVars, engineVars>>

\* a call of get_demographics
GetDemographics ==
    /\ pc = "ready"
    /\ Record(Call("get_demographics", <<>>), Some(get_demographics(demographics_data)))
    /\ UNCHANGED <<pc, repoVars, engineVars>>

\* a call of get_api_metadata
GetApiMetadata ==
    /\ pc = "ready"
    /\ Record(Call("get_api_metadata", <<>>), Some(get_api_metadata(api_data, Meta)))
    /\ UNCHANGED <<pc, repoVars, engineVars>>

\* a call of analytics_service.get_overview_metrics()
GetOverviewMetrics ==
    /\ pc = "ready"
    /\ Record(Call("get_overview_metrics", <<>>),
              Some(get_overview_metrics(enrolment_data, update_data, state_data,
                                        demographics_data, Meta, now)))
    /\ UNCHANGED <<pc, repoVars, engineVars>>

\* API records naming two metro states, with a small and a large record total
OverviewResponses ==
    FailedResponses
    \cup {OkResponse(AllCols, RowsOf(3, 0, "flat", "metro", FALSE), Some(t)) : t \in {3, 150}}

\* random draws of the state rows: some of the first MaxHotRank rows draw a
\* growth of 15.0 or of 16.0 percent
OverviewDraws ==
    {[NoRandom EXCEPT !.draws = [hot |-> h, draw |-> [BaseDraw EXCEPT !.yoy_growth = g]]] :
        h \in SUBSET (1..MaxHotRank), g \in {150, 160}}

\* a call of get_state_data
GetStateData ==
    /\ pc = "ready"
    /\ Record(Call("get_state_data", <<>>), Some(get_state_data(state_data)))
    /\ UNCHANGED <<pc, repoVars, engineVars>>

\* API records that name every state of all_states, one record each over three
\* months, with age counts 0, 1, 2 or all 0
GeographyResponses ==
    {OkResponse(AllCols,
                [k \in 1..Len(all_states) |->
                    [date |-> Some(StartMonth + ((k - 1) % 3)),
                     state |-> Some(all_states[k][1]), age |-> AgesOf(pattern, k)]],
                Some(3)) : pattern \in {"flat", "zeros"}}

NextQueries ==
    \/ Construct(FailedResponses, UpdateDraws)
    \/ Construct(FrameResponses \cup SeriesResponses, {NoRandom})
    \/ GetEnrolmentTimeseries
    \/ GetUpdateTimeseries
    \/ GetUpdateTypes
    \/ GetStateData
    \/ GetTrends
    \/ Construct(OverviewResponses, OverviewDraws)
    \/ GetOverviewMetrics
    \/ Construct(GeographyResponses, {NoRandom})
    \/ GetGeographyData

SpecQueries == Init /\ [][NextQueries]_vars

\* the percentages of a get_update_types result, NaN left out
SharesOf(rows) ==
    [t \in 1..Len(rows) |-> IF rows[t].percentage = Null THEN 0 ELSE rows[t].percentage[1]]

\* C11: the percentages get_update_types returns, each count / total * 100
\* rounded to one decimal, sum to 100.0 within 0.5 (tenths: 1000 within 5).
C11_SharesSumTo100 ==
    call.op = "get_update_types" =>
        /\ \A t \in 1..Len(result[1]) : result[1][t].percentage # Null
        /\ Abs(SumSeq(SharesOf(result[1])) - 1000) <= 5

\* a latest month with noisy counts whose rounded percentages do not sum to
\* exactly 100.0
C11_Witness ==
    /\ call.op = "get_update_types"
    /\ \E t \in 1..Len(result[1]) :
          result[1][t].count # get_update_types(Some(GenerateUpdateData({}, {})))[t].count
    /\ SumSeq(SharesOf(result[1])) \notin {1000}
    /\ Abs(SumSeq(SharesOf(result[1])) - 1000) <= 5


\* C12: after initialization by either path, no two records returned by
\* get_state_data share the same code.
C12_UniqueCodes ==
    call.op = "get_state_data" =>
        \A i, j \in 1..Len(result[1]) : i # j => result[1][i].code # result[1][j].code


\* period p is an earlier month than period q
PeriodBefore(p, q) == p[1] < q[1] \/ (p[1] = q[1] /\ p[2] < q[2])

\* C13: for a stored series of length L and months = N >= 0, both timeseries
\* getters return exactly min(N, L) points, the last min(N, L) rows of the
\* stored series, in chronological order (periods strictly increasing).
C13_TailSlices ==
    /\ call.op = "get_enrolment_timeseries" =>
          LET stored == enrolment_data[1]
              L == Len(stored)
              k == Min(call.args[1], L)
          IN  /\ Len(result[1]) = k
              /\ \A i \in 1..k :
                    /\ result[1][i].period = Period(stored[L - k + i].month)
                    /\ result[1][i].value = stored[L - k + i].enrolments
                    /\ result[1][i].cumulative = stored[L - k + i].cumulative
              /\ \A i \in 1..(k - 1) :
                    PeriodBefore(result[1][i].period, result[1][i + 1].period)
    /\ call.op = "get_update_timeseries" =>
          LET stored == update_data[1]
              L == Len(stored)
              k == Min(call.args[1], L)
          IN  /\ Len(result[1]) = k
              /\ \A i \in 1..k :
                    /\ result[1][i].period = Period(stored[L - k + i].month)
                    /\ result[1][i].value = SumSeq(stored[L - k + i].count)
              /\ \A i \in 1..(k - 1) :
                    PeriodBefore(result[1][i].period, result[1][i + 1].period)

\* a proper tail of an API series with a missing month is returned
C13_Witness ==
    /\ call.op = "get_enrolment_timeseries"
    /\ data_source = "Data.gov.in API"
    /\ Len(result[1]) = 13 /\ Len(enrolment_data[1]) = 13
    /\ \E i \in 1..12 : result[1][i + 1].period \notin {Period(enrolment_data[1][i].month + 1)}


\* the per-month totals of the stored update series
UpdateTotals == [i \in 1..Len(update_data[1]) |-> SumSeq(update_data[1][i].count)]

\* the stored monthly enrolments
EnrolmentValues == [i \in 1..Len(enrolment_data[1]) |-> enrolment_data[1][i].enrolments]

\* the percent change, rounded to one decimal, from the average of the 12
\* values before the trailing 12 to the average of the trailing 12
TrailingVsPreceding(values) ==
    LET L == Len(values)
    IN  GrowthPct(MeanOf(SubSeq(values, L - 11, L)), MeanOf(SubSeq(values, L - 23, L - 12)))

\* C14: for stored series of at least 24 months, get_trends computes
\* enrolment_growth_yoy and update_growth_yoy as the percent change from the
\* average of the 12 months preceding the trailing 12 months to the average
\* of the trailing 12 months.
C14_TrailingVsPreceding12 ==
    (call.op = "get_trends" /\ Len(enrolment_data[1]) >= 24 /\ Len(update_data[1]) >= 24) =>
        /\ result[1].enrolment_growth_yoy = TrailingVsPreceding(EnrolmentValues)
        /\ result[1].update_growth_yoy = TrailingVsPreceding(UpdateTotals)

\* a float that is neither infinite nor NaN
Finite(x) == x[2] # 0

\* C15: no growth rate or ratio propagates a numeric error when its divisor
\* is zero: the growth rates of get_trends and the percentages of
\* get_update_types are finite numbers.
C15_ZeroDivisorsGuarded ==
    /\ call.op = "get_trends" =>
          Finite(result[1].enrolment_growth_yoy) /\ Finite(result[1].update_growth_yoy)
    /\ call.op = "get_update_types" =>
          \A t \in 1..Len(result[1]) : result[1][t].percentage # Null


\* C16: in the demographics held after initialization, the percentages of
\* each dimension (age_groups, gender, location) sum to 100 within rounding
\* tolerance (0.5), also for API data whose age-group totals are all zero.
C16_DimensionsSumTo100 ==
    pc = "ready" =>
        LET d == demographics_data[1]
        IN  /\ Abs(SumSeq(d.age_groups) - 1000) <= 5
            /\ Abs((d.gender.Male + d.gender.Female + d.gender.Other) - 1000) <= 5
            /\ Abs((d.location.Urban + d.location.Rural) - 1000) <= 5


\* the states as get_state_data returns them, and the positions of those the
\* two alert rules select
StatesNow == get_state_data(state_data)

SurgeStates == {i \in 1..Len(StatesNow) : StatesNow[i].yoy_growth > 150}

CapacityStates ==
    {i \in 1..Len(StatesNow) : /\ StatesNow[i].code \in {"DL", "MH", "KA", "TN"}
                               /\ StatesNow[i].monthly_enrolments > 1000}

AlertsNow == IF call.op = "get_overview_metrics" THEN result[1].alerts ELSE <<>>

IsSurgeAlert(a, name) == a.type = "info" /\ a.region = name

IsCapacityAlert(a, name) == a.severity = "high" /\ a.region = name

\* C18 as stated: every state whose yoy_growth exceeds 15 has an info-level
\* surge alert naming it, every metro state (DL, MH, KA, TN) whose
\* monthly_enrolments exceeds 1,000,000 has a high-severity capacity alert
\* naming it, and surge alerts come before capacity alerts.
C18_AlertForEveryState ==
    call.op = "get_overview_metrics" =>
        /\ \A i \in SurgeStates :
              \E k \in 1..Len(AlertsNow) : IsSurgeAlert(AlertsNow[k], StatesNow[i].name)
        /\ \A i \in CapacityStates :
              \E k \in 1..Len(AlertsNow) : IsCapacityAlert(AlertsNow[k], StatesNow[i].name)
        /\ \A k, l \in 1..Len(AlertsNow) :
              (AlertsNow[k].type = "info" /\ AlertsNow[l].severity = "high") => k < l

\* the first position of a non-empty set of positions
FirstOf(S) == CHOOSE i \in S : \A j \in S : i <= j

\* C18, amended: the alerts hold one surge alert (type info, severity medium)
\* exactly when some state's yoy_growth exceeds 15, naming the first such
\* state in get_state_data order, and one capacity alert (type warning,
\* severity high) exactly when some metro state's monthly_enrolments exceeds
\* 1,000,000, naming the first such state; each rule fires whatever the
\* other does, and the surge alert comes first.
C18_AlertForFirstState ==
    call.op = "get_overview_metrics" =>
        LET surge == IF SurgeStates = {} THEN <<>>
                     ELSE <<[type |-> "info", region |-> StatesNow[FirstOf(SurgeStates)].name,
                             severity |-> "medium"]>>
            capacity == IF CapacityStates = {} THEN <<>>
                        ELSE <<[type |-> "warning",
                                region |-> StatesNow[FirstOf(CapacityStates)].name,
                                severity |-> "high"]>>
            Shown(a) == [type |-> a.type, region |-> a.region, severity |-> a.severity]
        IN  [k \in 1..Len(AlertsNow) |-> Shown(AlertsNow[k])] = surge \o capacity

\* both rules fire, each with two states to choose from
C18_Witness ==
    /\ call.op = "get_overview_metrics"
    /\ Cardinality(SurgeStates) >= 2 /\ Cardinality(CapacityStates) >= 2
    /\ Len(AlertsNow) = 2


\* the result of the latest get_geography_data call
GeographyNow == result[1]

\* the rollups partition the states: one rollup per region, holding the sum
\* and the number of the states of that region, by descending total
RegionsPartition(states, geography) ==
    LET by_region == geography.by_region
        regions == {states[i].region : i \in 1..Len(states)}
        Members(region) == {i \in 1..Len(states) : states[i].region = region}
    IN  /\ Len(by_region) = Cardinality(regions)
        /\ {by_region[k].region : k \in 1..Len(by_region)} = regions
        /\ \A k \in 1..Len(by_region) :
              /\ by_region[k].state_count = Cardinality(Members(by_region[k].region))
              /\ by_region[k].total_enrolments
                    = SumSeq([i \in 1..Len(states) |->
                                 IF i \in Members(by_region[k].region)
                                 THEN states[i].total_enrolments ELSE 0])
        /\ SumSeq([k \in 1..Len(by_region) |-> by_region[k].total_enrolments])
              = geography.heatmap.total
        /\ SumSeq([k \in 1..Len(by_region) |-> by_region[k].state_count]) = Len(states)
        /\ \A k \in 1..(Len(by_region) - 1) :
              by_region[k].total_enrolments >= by_region[k + 1].total_enrolments

\* each normalized value is the state's total over the largest total, at most
\* 1 and 1 for the largest state
NormalizedByMaximum(states, geography) ==
    LET data == geography.heatmap.data
    IN  /\ Len(data) = Len(states)
        /\ \A k \in 1..Len(data) :
              /\ data[k].normalized[1] = data[k].value
              /\ data[k].normalized[2] > 0
              /\ data[k].normalized[1] <= data[k].normalized[2]
              /\ \A j \in 1..Len(states) :
                    states[j].total_enrolments <= data[k].normalized[2]
              /\ \E j \in 1..Len(states) :
                    states[j].name = data[k].name
                    /\ states[j].total_enrolments = data[k].value
        /\ \E k \in 1..Len(data) : data[k].normalized[1] = data[k].normalized[2]

\* C20: for any non-empty state set get_geography_data returns rollups that
\* partition the states (by_region totals sum to the heatmap total, state
\* counts sum to the number of states), by_region by descending total, and
\* each normalized value the state's total over the maximum state total, at
\* most 1 and 1 for the largest state.
C20_RegionsPartitionStates ==
    call.op = "get_geography_data" =>
        \A states \in {StatesNow}, geography \in {GeographyNow} :
            Len(states) > 0 =>
                /\ "heatmap" \in DOMAIN geography
                /\ RegionsPartition(states, geography)
                /\ NormalizedByMaximum(states, geography)

----------------------------------------------------------------------------
(* Every entry point, in any order: specification and claim *)

NextReadOnly ==
    \/ Construct({[kind |-> "error", cols |-> {}, rows |-> <<>>, total |-> Some(0)],
                  OkResponse(AllCols, RowsOf(MaxApiMonths, 0, "spike", "known", FALSE),
                             Some(3))},
                 RepeatDraws)
    \/ GetSummaryStats
    \/ GetEnrolmentTimeseries
    \/ GetUpdateTimeseries
    \/ GetUpdateTypes
    \/ GetStateData
    \/ GetDemographics
    \/ GetTrends
    \/ GetApiMetadata
    \/ GetOverviewMetrics
    \/ GetUpdateAnalytics
    \/ GetGeographyData
    \/ DetectAllAnomalies
    \/ GenerateForecast
    \/ GetCapacityForecast

SpecReadOnly == Init /\ [][NextReadOnly]_vars

\* C17: once the repository is initialized, no repository query and no
\* aggregator, detector or forecast entry point changes the stored enrolment
\* series, update series, state data, demographics or data source, over any
\* sequence of calls.
C17_ReadOnlyAfterInit ==
    [][pc = "ready" =>
        UNCHANGED <<enrolment_data, update_data, state_data, demographics_data,
                    data_source>>]_vars

\* a query that returned one row of a longer stored series, after a detection
\* run and a call before it
C17_Witness ==
    /\ call.op = "get_enrolment_timeseries" /\ call.args = <<1>>
    /\ Len(result[1]) = 1 /\ Len(enrolment_data[1]) > 1
    /\ anomaly_counter > 0 /\ prev # Null

----------------------------------------------------------------------------
(* _calculate_seasonal_patterns on its own: specification and claim *)

\* the periods a series is drawn from: January twice, February, December
SeasonPeriods == <<<<2023, 1>>, <<2023, 2>>, <<2024, 1>>, <<2024, 12>>>>

\* the values of a series: no activity, one record, five thousand records
SeasonValues == {0, 1, 5000}

\* the non-empty time series of up to MaxSeasonLen points in period order
SeasonalInputs ==
    LET Picks == {ix \in UNION {[1..l -> 1..Len(SeasonPeriods)] : l \in 1..MaxSeasonLen} :
                     \A k \in 1..(Len(ix) - 1) : ix[k] < ix[k + 1]}
    IN  UNION {{[k \in 1..Len(ix) |-> [period |-> SeasonPeriods[ix[k]], value |-> v[k]]] :
                   v \in [1..Len(ix) -> SeasonValues]} : ix \in Picks}

\* a call of analytics_service._calculate_seasonal_patterns(timeseries)
CalculateSeasonal ==
    /\ \E timeseries \in SeasonalInputs :
          Record(Call("_calculate_seasonal_patterns", <<timeseries>>),
                 Some(CalculateSeasonalPatterns(timeseries)))
    /\ UNCHANGED <<pc, repoVars, engineVars>>

NextSeasonal == CalculateSeasonal

SpecSeasonal == Init /\ [][NextSeasonal]_vars

\* the series of the latest call and the entries returned for it
SeriesNow == call.args[1]

EntriesNow == result[1]

\* the observations of calendar month m in the series
ObservedIn(m) == {t \in 1..Len(SeriesNow) : SeriesNow[t].period[2] = m}

ValueSum(points) == SumSeq([t \in 1..Len(SeriesNow) |->
                               IF t \in points THEN SeriesNow[t].value ELSE 0])

\* an entry for exactly the calendar months observed, in month order
ObservedMonthsEmitted ==
    /\ {EntriesNow[k].month_num : k \in 1..Len(EntriesNow)}
           = {m \in 1..12 : ObservedIn(m) # {}}
    /\ \A k \in 1..(Len(EntriesNow) - 1) :
           EntriesNow[k].month_num < EntriesNow[k + 1].month_num

\* the indices (thousandths) weighted by the observations of their month sum
\* to the number of observations, within the rounding of an index
WeightedAverageOne ==
    LET weighted == SumSeq([k \in 1..Len(EntriesNow) |->
                       Cardinality(ObservedIn(EntriesNow[k].month_num))
                           * EntriesNow[k].index[1]])
    IN  2 * Abs(weighted - (1000 * Len(SeriesNow))) <= Len(SeriesNow)

----------------------------------------------------------------------------
(* The detectors one by one: specification and claims *)

\* monthly record counts of API responses: a spike in a series too short for
\* the z-scores, a spike among 12 months, a dip and then a larger spike among
\* 24 months, three deviations of about the same size, and four of them
DetectorSeries ==
    {[k \in 1..11 |-> IF k = 5 THEN 30 ELSE 6],
     [k \in 1..12 |-> IF k = 5 THEN 30 ELSE 6],
     [k \in 1..24 |-> IF k = 3 THEN 0 ELSE IF k = 10 THEN 14 ELSE 6],
     [k \in 1..24 |-> IF k \in {2, 20} THEN 12 ELSE IF k = 7 THEN 0 ELSE 6],
     [k \in 1..24 |-> IF k \in {2, 9, 15, 20} THEN 12 ELSE 6]}

\* API responses with one record per month from StartMonth on
DetectorResponses ==
    FailedResponses
    \cup {OkResponse(AllCols,
                     [k \in 1..Len(counts) |->
                         [date |-> Some(StartMonth + (k - 1)), state |-> StateOf("known", k),
                          age |-> <<Some(0), Some(0), Some(counts[k])>>]],
                     Some(3)) : counts \in DetectorSeries}

\* a call of anomaly_engine._detect_enrolment_anomalies()
DetectEnrolmentAnomalies ==
    /\ pc = "ready"
    /\ anomaly_counter < MaxCounter
    /\ \E run \in {detect_enrolment_anomalies(enrolment_data, state_data,
                                               anomaly_counter, now)} :
          /\ Record(Call("_detect_enrolment_anomalies", <<>>), Some(run.anomalies))
          /\ anomaly_counter' = run.counter
          /\ issued' = issued \o [k \in 1..Len(run.anomalies) |-> run.anomalies[k].id]
    /\ UNCHANGED <<pc, repoVars, fetch, horizon, now, thr>>

\* a call of anomaly_engine._detect_update_anomalies()
DetectUpdateAnomalies ==
    /\ pc = "ready"
    /\ anomaly_counter < MaxCounter
    /\ \E run \in {detect_update_anomalies(update_data, state_data, anomaly_counter, now)} :
          /\ Record(Call("_detect_update_anomalies", <<>>), Some(run.anomalies))
          /\ anomaly_counter' = run.counter
          /\ issued' = issued \o [k \in 1..Len(run.anomalies) |-> run.anomalies[k].id]
    /\ UNCHANGED <<pc, repoVars, fetch, horizon, now, thr>>

NextDetectors ==
    \/ Construct(DetectorResponses, DetectDraws)
    \/ DetectEnrolmentAnomalies
    \/ DetectUpdateAnomalies

SpecDetectors == Init /\ [][NextDetectors]_vars

\* the window _detect_enrolment_anomalies reads, and its values
WindowNow == get_enrolment_timeseries(enrolment_data, detect_months)

\* the points of a window whose |z| exceeds the threshold 2.5, in scan order
FlaggedIn(window) ==
    LET values == [t \in 1..Len(window) |-> window[t].value]
        Beyond(i) == ZAbove(values, values[i], 5, 2)
    IN  SelectSeq([i \in 1..Len(window) |-> i], Beyond)

\* anomaly a reports point i of the window: its period, surge for z > 0 and
\* drop otherwise, high for |z| > 3 and medium otherwise
ReportsPoint(a, window, i) ==
    LET values == [t \in 1..Len(window) |-> window[t].value]
    IN  /\ a.evidence.period = window[i].period
        /\ a.evidence.actual_value = window[i].value
        /\ a.type = IF Len(values) * values[i] > SumSeq(values)
                    THEN "Enrolment Surge" ELSE "Enrolment Drop"
        /\ a.severity = IF ZAbove(values, values[i], 3, 1) THEN "high" ELSE "medium"

\* C21: for a window of at least 12 points _detect_enrolment_anomalies returns
\* exactly the first min(3, k) of the k points whose |z| exceeds the
\* threshold, in scan order, each a surge when z > 0 and a drop otherwise,
\* high when |z| > 3 and medium otherwise; for a shorter window it returns
\* nothing.
C21_FirstThreeFlaggedInScanOrder ==
    call.op = "_detect_enrolment_anomalies" =>
        \A window \in {WindowNow}, anomalies \in {result[1]} :
            IF Len(window) < 12 THEN anomalies = <<>>
            ELSE \A hits \in {FlaggedIn(window)} :
                    /\ Len(anomalies) = Min(3, Len(hits))
                    /\ \A k \in 1..Len(anomalies) :
                          ReportsPoint(anomalies[k], window, hits[k])

\* a medium drop returned before the high surge that follows it in the window
C21_Witness ==
    /\ call.op = "_detect_enrolment_anomalies"
    /\ Len(WindowNow) = 24 /\ Len(result[1]) = 2
    /\ result[1][1].type = "Enrolment Drop" /\ result[1][1].severity = "medium"
    /\ result[1][2].type = "Enrolment Surge" /\ result[1][2].severity = "high"

\* the five largest states, and the positions among them of the states whose
\* update_rate exceeds 0.10
HotAmong(top) ==
    LET Hot(i) == top[i].update_rate > 1000
    IN  SelectSeq([i \in 1..Len(top) |-> i], Hot)

\* the Address share of the latest month exceeds 45%
AddressFlagged ==
    \E ut \in {get_update_types(update_data)[i] : i \in 1..Len(update_types)} :
        ut.type = "Address" /\ ut.percentage # Null /\ ut.percentage[1] > 450

\* anomaly a reports the state: severity low, its update_rate to 3 decimals
ReportsState(a, state) ==
    /\ a.state = state.name /\ a.severity = "low"
    /\ a.evidence.update_rate = RoundHalfEven(state.update_rate, 10)

\* C22 as stated: every state among the five largest whose update_rate
\* exceeds 0.10 appears in the output of _detect_update_anomalies with
\* severity low and its update_rate rounded to 3 decimals, whatever the other
\* states' rates and the Address share are.
C22_EveryHotStateReported ==
    call.op = "_detect_update_anomalies" =>
        \A top \in {HeadN(StatesNow, 5)}, anomalies \in {result[1]} :
            \A i \in 1..Len(top) :
                top[i].update_rate > 1000 =>
                    \E k \in 1..Len(anomalies) : ReportsState(anomalies[k], top[i])

\* C22 as the code has it: the output is the first two of the Address anomaly
\* (when the Address share exceeds 45%) followed by the states among the five
\* largest whose update_rate exceeds 0.10, largest first; each state returned
\* has severity low and its update_rate rounded to 3 decimals.
C22_FirstTwoFlagged ==
    call.op = "_detect_update_anomalies" =>
        \A top \in {HeadN(StatesNow, 5)}, anomalies \in {result[1]},
           lead \in {IF AddressFlagged THEN 1 ELSE 0} :
            \A hot \in {HotAmong(top)} :
                /\ Len(anomalies) = Min(2, lead + Len(hot))
                /\ \A k \in 1..Len(anomalies) :
                      IF k <= lead
                      THEN anomalies[k].state = "Multiple States"
                           /\ anomalies[k].severity = "medium"
                      ELSE ReportsState(anomalies[k], top[hot[k - lead]])

\* the Address anomaly and the largest of three states above 0.10 returned,
\* the other two states left out
C22_Witness ==
    /\ call.op = "_detect_update_anomalies"
    /\ AddressFlagged /\ Len(HotAmong(HeadN(StatesNow, 5))) = 3
    /\ Len(result[1]) = 2 /\ result[1][2].severity = "low"

----------------------------------------------------------------------------
(* _decompose on the series of the repository: specification and claims *)

\* API responses with one record per month, the first month January or April
\* of 2023, over 12, 14 or 24 months, the counts uneven from month to month
DecomposeResponses ==
    {OkResponse(AllCols,
                [k \in 1..n |->
                    [date |-> Some(StartMonth + first + (k - 1)), state |-> StateOf("known", k),
                     age |-> <<Some(0), Some(0), Some(6 + ((k * k) % 5))>>]],
                Some(3)) : n \in {12, 14, 24}, first \in {0, 3}}

\* the series generate_forecast(metric) reads
SeriesOf(metric) ==
    IF metric = "enrolments" THEN get_enrolment_timeseries(enrolment_data, forecast_months)
    ELSE get_update_timeseries(update_data, forecast_months)

\* a call of forecasting_engine._decompose(values) on the values of a series
\* long enough to be forecast
DecomposeSeries ==
    /\ pc = "ready"
    /\ \E metric \in {"enrolments", "updates"} :
          \E timeseries \in {SeriesOf(metric)} :
             /\ Len(timeseries) >= forecast_min_points
             /\ Record(Call("_decompose", <<metric>>),
                       Some(Decompose(Strict([t \in 1..Len(timeseries) |->
                                                 timeseries[t].value]))))
    /\ UNCHANGED <<pc, repoVars, engineVars>>

NextDecompose ==
    \/ Construct(FailedResponses, EnrolmentDraws)
    \/ Construct(DecomposeResponses, {NoRandom})
    \/ DecomposeSeries
    \/ GenerateForecast

SpecDecompose == Init /\ [][NextDecompose]_vars

\* the sum of column[t] over the points t
SumOver(column, points) ==
    SumSeq([t \in 1..Len(column) |-> IF t \in points THEN column[t] ELSE 0])

\* the points of the window of `window` values centered at t that exist in a
\* series of n points
WindowAt(t, window, n) ==
    LET hi == t + ((window - 1) \div 2)
    IN  {j \in 1..n : hi - window + 1 <= j /\ j <= hi}

\* C23: in _decompose the window is min(12, n/2) and, for every index t of a
\* series of n >= 12 points, also within half a window of either end,
\* trend[t] is the mean of the observed values in the window centered at t.
C23_TrendIsMeanOfObserved ==
    call.op = "_decompose" =>
        \A series \in {SeriesOf(call.args[1])}, dec \in {result[1]} :
            /\ dec.window = Min(12, Len(series) \div 2)
            /\ \A t \in 1..Len(series) :
                  \A observed \in {WindowAt(t, dec.window, Len(series))} :
                      dec.trendsum[t] * Cardinality(observed)
                          = dec.window * SumOver([j \in 1..Len(series) |-> series[j].value],
                                                 observed)

\* two means <<sum, count>> are the same number, the mean of no values being 0
SameMean(a, b) ==
    IF a[2] = 0 \/ b[2] = 0
    THEN (a[2] = 0 \/ a[1] = 0) /\ (b[2] = 0 \/ b[1] = 0)
    ELSE a[1] * b[2] = b[1] * a[2]

\* C24: slot k (0..11) of the seasonal vector of _decompose holds the average
\* detrended value of calendar month k + 1 over the years of the series,
\* whatever calendar month the series starts in; it is the slot
\* _forecast_with_confidence reads for a step in calendar month k + 1.
C24_SlotIsCalendarMonth ==
    call.op = "_decompose" =>
        \A series \in {SeriesOf(call.args[1])}, dec \in {result[1]} :
            \A k \in 0..11 :
                \A points \in {{t \in 1..Len(series) : series[t].period[2] = k + 1}} :
                    SameMean(dec.seasonal[k + 1],
                             <<SumOver(dec.detsum, points), Cardinality(points)>>)

----------------------------------------------------------------------------
(* The period labels of the forecast: claim *)

\* the number of the calendar month of a date or of a period <<year, month>>
MonthNumber(year, month) == (12 * year) + (month - 1)

\* C29: for every current date the period of forecast step i, the month of
\* now + 30 * i days, is the calendar month i months after the current
\* month, the month whose seasonal slot (now.month + i - 1) mod 12 the step
\* uses; the periods of the horizon are consecutive calendar months, none
\* repeated and none skipped.
C29_PeriodIsMonthOfStep ==
    \A points \in {Points}, today \in {DateOf(call.at)} :
        \A i \in 1..Len(points) :
            /\ MonthNumber(points[i].period[1], points[i].period[2])
                  = MonthNumber(today.year, today.month) + i
            /\ points[i].period[2] - 1 = (today.month + i - 1) % 12

----------------------------------------------------------------------------
(* Capacity planning: specification and claims *)

\* the monthly counts of API series that the scaling to a mean of 12.5
\* million a month turns into one month far above the others: 23 months with
\* the 12th month 30, 45, 60 times the others or alone, and 30 months with
\* the 19th month alone
CapacitySeries ==
    {[k \in 1..23 |-> IF k = 12 THEN spike ELSE 1] : spike \in {1, 30, 45, 60}}
    \cup {[k \in 1..23 |-> IF k = 12 THEN 25 ELSE 0],
          [k \in 1..30 |-> IF k = 19 THEN 40 ELSE 0]}

\* the API responses with one record per month from January 2023 carrying
\* those counts
CapacityResponses ==
    {OkResponse(AllCols,
                [k \in 1..Len(counts) |->
                    [date |-> Some(StartMonth + (k - 1)), state |-> StateOf("known", k),
                     age |-> <<Some(0), Some(0), Some(counts[k])>>]],
                Some(3)) : counts \in CapacitySeries}

\* the np.random draws of one _get_regional_capacity call, the utilizations
\* (1/1000) on both sides of 0.85 and on it
RegionDraws ==
    LET Draw(u) == [base_capacity |-> 2000000, utilization |-> u, swing |-> 0]
    IN  {<<Draw(650), Draw(844), Draw(847), Draw(852), Draw(856), Draw(949)>>,
         <<Draw(850), Draw(849), Draw(845), Draw(855), Draw(851), Draw(700)>>}

\* a call of forecasting_engine._get_regional_capacity()
GetRegionalCapacityCall ==
    /\ pc = "ready"
    /\ \E draws \in RegionDraws :
          Record(Call("_get_regional_capacity", draws), Some(GetRegionalCapacity(draws)))
    /\ UNCHANGED <<pc, repoVars, engineVars>>

NextCapacity ==
    \/ Construct(FailedResponses \cup CapacityResponses, {NoRandom})
    \/ GetCapacityForecast
    \/ GetRegionalCapacityCall

SpecCapacity == InitForecast /\ [][NextCapacity]_vars

\* the capacity analysis of the latest get_capacity_forecast call, if it
\* produced one
AnalysisNow ==
    IF call.op = "get_capacity_forecast" /\ "capacity_analysis" \in DOMAIN result[1]
    THEN {result[1]} ELSE {}

\* the predicted demand, in enrolments, of the forecast periods of a capacity
\* forecast
DemandOf(capacity) ==
    [i \in 1..Len(capacity.forecast.enrolments.forecast) |->
        capacity.forecast.enrolments.forecast[i].predicted * enrolment_unit]

\* the largest value of a non-empty sequence
Largest(s) == CHOOSE v \in {s[i] : i \in 1..Len(s)} : \A i \in 1..Len(s) : s[i] <= v

\* the tier _get_capacity_recommendation names for a demand of `first`
\* enrolments in the first period and a gap of `gap` enrolments
TierOf(first, gap) ==
    IF gap > 1000000 THEN "critical"
    ELSE IF (first \div 1250) * 100 > ((52387 * 150 * 25) \div 1250) * 90 THEN "high"
    ELSE IF (first \div 1250) * 100 > ((52387 * 150 * 25) \div 1250) * 75 THEN "moderate"
    ELSE "adequate"

\* the reported figures of analysis a are those of a demand `first` in the
\* first period and of a gap measured against the demand `against` (demands
\* are multiples of 1250, as is the capacity)
AnalysisIs(a, first, against) ==
    /\ a.current_capacity = 52387 * 150 * 25
    /\ a.current_utilization
          = RoundHalfEven((first \div 1250) * 100, (52387 * 150 * 25) \div 1250)
    /\ a.capacity_gap = Max(0, against - (52387 * 150 * 25))
    /\ a.recommendation.level = TierOf(first, against - (52387 * 150 * 25))

\* C25 as claimed: the monthly capacity is 52387 x 150 x 25; utilization and
\* gap both compare it with the predicted demand of the first forecast
\* period, capacity_gap = max(0, predicted[first] - capacity); the
\* recommendation tier is chosen from those two values.
C25_GapOfFirstPeriod ==
    \A capacity \in AnalysisNow :
        \A demand \in {DemandOf(capacity)} :
            AnalysisIs(capacity.capacity_analysis, demand[1], demand[1])

\* C25: the monthly capacity is 52387 x 150 x 25; the utilization compares it
\* with the predicted demand of the first forecast period; capacity_gap is
\* max(0, peak - capacity) for the largest predicted demand of the horizon;
\* the tier is critical when peak - capacity > 1,000,000, else high when
\* first / capacity > 0.9, else moderate when > 0.75, else adequate.
C25_GapOfPeak ==
    \A capacity \in AnalysisNow :
        \A demand \in {DemandOf(capacity)} :
            /\ capacity.capacity_analysis.predicted_demand_peak * enrolment_unit
                  = Largest(demand)
            /\ AnalysisIs(capacity.capacity_analysis, demand[1], Largest(demand))

\* a capacity forecast whose peak is above the capacity and above the demand
\* of the first period
C25_Witness ==
    \E capacity \in AnalysisNow :
        \E demand \in {DemandOf(capacity)} :
            /\ Largest(demand) > demand[1]
            /\ capacity.capacity_analysis.capacity_gap > 0
            /\ capacity.capacity_analysis.recommendation.level = "critical"

\* the per-region records of the latest call that emitted some
RegionsNow ==
    IF call.op = "_get_regional_capacity" THEN result[1]
    ELSE IF call.op = "get_capacity_forecast" /\ "by_region" \in DOMAIN result[1]
    THEN result[1].by_region
    ELSE <<>>

\* C26 as claimed: every per-region record has status "stressed" exactly when
\* the utilization it reports is greater than 0.85, and "adequate" otherwise,
\* also at a reported utilization of exactly 0.85.
C26_StressedAboveReported ==
    \A regions \in {RegionsNow} :
        \A r \in 1..Len(regions) :
            regions[r].status = (IF regions[r].utilization > 85 THEN "stressed" ELSE "adequate")

\* C26: every per-region record has status "adequate" exactly when the
\* utilization drawn for the region is below 0.85 and "stressed" otherwise,
\* also at exactly 0.85; it reports that utilization rounded to 2 decimals,
\* so a record reporting less than 0.85 is adequate and one reporting more
\* than 0.85 is stressed.
C26_StressedFromDrawn ==
    \A regions \in {RegionsNow} :
        \A r \in 1..Len(regions) :
            /\ regions[r].status \in {"adequate", "stressed"}
            /\ regions[r].utilization < 85 => regions[r].status = "adequate"
            /\ regions[r].utilization > 85 => regions[r].status = "stressed"
            /\ call.op = "_get_regional_capacity" =>
                  /\ regions[r].status = "adequate" <=> call.args[r].utilization < 850
                  /\ regions[r].utilization = RoundHalfEven(call.args[r].utilization, 10)

\* one call emits a stressed and an adequate region that both report 0.85
C26_Witness ==
    /\ call.op = "_get_regional_capacity"
    /\ \E r, q \in 1..Len(RegionsNow) :
          /\ RegionsNow[r].utilization = 85 /\ RegionsNow[r].status = "stressed"
          /\ RegionsNow[q].utilization = 85 /\ RegionsNow[q].status = "adequate"

----------------------------------------------------------------------------
(* The anomaly endpoints of routers/anomalies.py: specification and claim *)

\* get_anomalies(severity, type) on the list detect_all_anomalies returned; an
\* absent or empty filter is Null
get_anomalies(anomalies, severity, type) ==
    LET BySeverity(a) == severity = Null \/ a.severity = severity[1]
        ByType(a) == type = Null \/ a.type = type[1]
        Response(kept) ==
            [anomalies |-> kept,
             total_anomalies |-> Len(kept),
             by_severity |-> [v \in {"high", "medium", "low", "critical"} |->
                                Cardinality({k \in 1..Len(kept) : kept[k].severity = v})]]
    IN  Apply(Response, SelectSeq(SelectSeq(anomalies, BySeverity), ByType))

\* next((a for a in anomalies if a["id"] == anomaly_id), None)
FirstWithId(anomalies, anomaly_id) ==
    LET hits == {k \in 1..Len(anomalies) : anomalies[k].id = anomaly_id}
    IN  IF hits = {} THEN Null
        ELSE Some(anomalies[CHOOSE k \in hits : \A j \in hits : k <= j])

\* get_anomaly_detail(anomaly_id) on the list detect_all_anomalies returned
get_anomaly_detail(anomalies, anomaly_id) ==
    LET Detail(anomaly) ==
            IF anomaly = Null THEN [error |-> <<"not found", anomaly_id>>]
            ELSE [anomaly |-> anomaly[1]]
    IN  Apply(Detail, FirstWithId(anomalies, anomaly_id))

\* explain_anomaly(anomaly_id) on the list detect_all_anomalies returned
explain_anomaly(anomalies, anomaly_id) ==
    LET Explain(anomaly) ==
            IF anomaly = Null THEN [error |-> <<"not found", anomaly_id>>]
            ELSE [anomaly_id |-> anomaly_id, type |-> anomaly[1].type,
                  evidence |-> anomaly[1].evidence, confidence |-> 85]
    IN  Apply(Explain, FirstWithId(anomalies, anomaly_id))

\* the filters of a list request
ListFilters == {Null, Some("high"), Some("low")} \X {Null, Some("Enrolment Surge")}

\* GET /anomalies
GetAnomalies ==
    /\ pc = "ready"
    /\ anomaly_counter < MaxCounter
    /\ \E filter \in ListFilters :
          \E run \in {detect_all_anomalies(enrolment_data, update_data, state_data,
                                           demographics_data, anomaly_counter, now)} :
             /\ Record(Call("get_anomalies", filter),
                       Some(get_anomalies(run.anomalies, filter[1], filter[2])))
             /\ anomaly_counter' = run.counter
             /\ issued' = issued \o [k \in 1..Len(run.generated) |-> run.generated[k].id]
    /\ UNCHANGED <<pc, repoVars, fetch, horizon, now, thr>>

\* GET /anomalies/{anomaly_id}, following a list request and asking for one
\* of the ids the list returned; prev keeps the list response
GetAnomalyDetail ==
    /\ pc = "ready"
    /\ call.op = "get_anomalies"
    /\ \E k \in 1..Len(result[1].anomalies) :
          \E anomaly_id \in {result[1].anomalies[k].id},
             run \in {detect_all_anomalies(enrolment_data, update_data, state_data,
                                           demographics_data, anomaly_counter, now)} :
             /\ call' = [op |-> "get_anomaly_detail", args |-> <<anomaly_id>>, at |-> now]
             /\ result' = Some(get_anomaly_detail(run.anomalies, anomaly_id))
             /\ prev' = Some([result |-> result, now |-> call.at])
             /\ anomaly_counter' = run.counter
             /\ issued' = issued \o [j \in 1..Len(run.generated) |-> run.generated[j].id]
    /\ UNCHANGED <<pc, repoVars, fetch, horizon, now, thr>>

\* GET /anomalies/explain/{anomaly_id}, following a list request and asking for one
\* of the ids the list returned; prev keeps the list response
ExplainAnomaly ==
    /\ pc = "ready"
    /\ call.op = "get_anomalies"
    /\ \E k \in 1..Len(result[1].anomalies) :
          \E anomaly_id \in {result[1].anomalies[k].id},
             run \in {detect_all_anomalies(enrolment_data, update_data, state_data,
                                           demographics_data, anomaly_counter, now)} :
             /\ call' = [op |-> "explain_anomaly", args |-> <<anomaly_id>>, at |-> now]
             /\ result' = Some(explain_anomaly(run.anomalies, anomaly_id))
             /\ prev' = Some([result |-> result, now |-> call.at])
             /\ anomaly_counter' = run.counter
             /\ issued' = issued \o [j \in 1..Len(run.generated) |-> run.generated[j].id]
    /\ UNCHANGED <<pc, repoVars, fetch, horizon, now, thr>>

NextEndpoints ==
    \/ Construct(DetectResponses, DetectDraws)
    \/ GetAnomalies
    \/ GetAnomalyDetail
    \/ ExplainAnomaly

SpecEndpoints == Init /\ [][NextEndpoints]_vars

\* the anomaly of the list response before the latest call that carries the
\* id the latest call asked for
ListedAnomaly ==
    {prev[1].result[1].anomalies[k] :
        k \in {j \in 1..Len(prev[1].result[1].anomalies) :
                  prev[1].result[1].anomalies[j].id = call.args[1]}}

\* C27: with the repository unchanged, an id returned by get_anomalies is
\* found by the get_anomaly_detail or explain_anomaly call that follows: the
\* call returns that anomaly (same type, state and severity), not the
\* not-found result.
C27_ListedIdIsFound ==
    /\ call.op = "get_anomaly_detail" =>
          \A listed \in ListedAnomaly :
              /\ "anomaly" \in DOMAIN result[1]
              /\ result[1].anomaly.type = listed.type
              /\ result[1].anomaly.state = listed.state
              /\ result[1].anomaly.severity = listed.severity
    /\ call.op = "explain_anomaly" =>
          \A listed \in ListedAnomaly :
              /\ "error" \notin DOMAIN result[1]
              /\ result[1].type = listed.type

----------------------------------------------------------------------------
(* The data source the repository reports: claim *)

NextSource ==
    \/ Construct(FailedResponses \cup SeriesResponses \cup FrameResponses, EnrolmentDraws)
    \/ GetSummaryStats
    \/ GetApiMetadata

SpecSource == Init /\ [][NextSource]_vars

\* C28: after initialization, whenever the repository reports data_source
\* "simulated" (every path that ends in the synthetic fallback, a failure
\* while the fetched records are processed included) it reports
\* api_total_records = 0 and no API metadata (title, org and updated_date
\* null); a non-zero api_total_records is reported only together with
\* data_source "Data.gov.in API".
C28_SimulatedReportsNoApi ==
    /\ call.op = "get_summary_stats" =>
          \A stats \in {result[1]} :
              /\ stats.data_source = "simulated" => stats.api_total_records = 0
              /\ stats.api_total_records # 0 => stats.data_source = "Data.gov.in API"
    /\ call.op = "get_api_metadata" =>
          \A metadata \in {result[1]} :
              /\ metadata.data_source = "simulated" =>
                    /\ metadata.total_records_available = 0
                    /\ metadata.api_title = Null
                    /\ metadata.org = Null
                    /\ metadata.updated_date = Null
              /\ metadata.total_records_available # 0 =>
                    metadata.data_source = "Data.gov.in API"

----------------------------------------------------------------------------
(* DataGovClient.fetch_all_records: specification and claim *)

\* limit = 1000, the page size requested and the step of the offset
fetch_limit == 1000

\* what fetch_resource(offset=offset) can do: raise, or return a response
\* with 0..MaxPage records (a response without "records" reads as empty);
\* a record is named by the request that brought it and its place in the page
PageResponses(offset) ==
    {[kind |-> "error", offset |-> offset, records |-> <<>>]}
    \cup {[kind |-> "ok", offset |-> offset, records |-> [j \in 1..size |-> <<offset, j>>]] :
            size \in 0..MaxPage}

\* while len(all_records) < max_records
LoopContinues(all_records, max_records) == Len(all_records) < max_records

\* a return of everything fetched
ReturnedWhole(all_records, max_records) == all_records

\* all_records[:max_records], a Python slice
Returned(all_records, max_records) ==
    IF max_records < 0 THEN HeadN(all_records, Max(0, Len(all_records) + max_records))
    ELSE HeadN(all_records, max_records)

\* a call of fetch_all_records(max_records) up to its loop
FetchAllRecords ==
    /\ fetch.pc \in {"idle", "done"}
    /\ \E max_records \in 0..MaxRecords :
          fetch' = [pc |-> "loop", max_records |-> max_records, all_records |-> <<>>,
                    offset |-> 0, pages |-> <<>>]
    /\ UNCHANGED <<pc, repoVars, anomaly_counter, horizon, now, issued, thr, call, result,
                   prev>>

\* one pass of the loop, lines 120-141: a page is fetched at the offset; an
\* exception or a page without records leaves the loop
FetchBatch ==
    /\ fetch.pc = "loop"
    /\ LoopContinues(fetch.all_records, fetch.max_records)
    /\ \E data \in PageResponses(fetch.offset) :
          fetch' = IF data.kind = "error" \/ Len(data.records) = 0
                   THEN [fetch EXCEPT !.pc = "break", !.pages = Append(@, data)]
                   ELSE [fetch EXCEPT !.all_records = @ \o data.records,
                                      !.offset = @ + fetch_limit,
                                      !.pages = Append(@, data)]
    /\ UNCHANGED <<pc, repoVars, anomaly_counter, horizon, now, issued, thr, call, result,
                   prev>>

\* the return of line 143, once the loop is left
ReturnRecords ==
    /\ \/ fetch.pc = "break"
       \/ fetch.pc = "loop" /\ ~LoopContinues(fetch.all_records, fetch.max_records)
    /\ Record(Call("fetch_all_records", <<fetch.max_records>>),
              Some(Returned(fetch.all_records, fetch.max_records)))
    /\ fetch' = [fetch EXCEPT !.pc = "done"]
    /\ UNCHANGED <<pc, repoVars, anomaly_counter, horizon, now, issued, thr>>

NextFetch ==
    \/ FetchAllRecords
    \/ FetchBatch
    \/ ReturnRecords

\* the coroutine is resumed after each await and runs to its return
SpecFetch ==
    Init /\ [][NextFetch]_vars /\ WF_vars(FetchBatch) /\ WF_vars(ReturnRecords)

\* the pages before the first page that is empty or failed
PagesBeforeStop(pages) ==
    LET stops == {k \in 1..Len(pages) : pages[k].kind = "error" \/ Len(pages[k].records) = 0}
    IN  IF stops = {} THEN pages
        ELSE SubSeq(pages, 1, (CHOOSE k \in stops : \A j \in stops : k <= j) - 1)

RECURSIVE ConcatRecords(_)
\* the records of the pages, one page after the other
ConcatRecords(pages) ==
    IF Len(pages) = 0 THEN <<>>
    ELSE ConcatRecords(SubSeq(pages, 1, Len(pages) - 1)) \o pages[Len(pages)].records

\* what a finished call returned is at most max_records records: the
\* concatenation, in offset order, of the pages fetched before the first empty
\* page or error, cut after max_records records
ReturnsFetchedPages ==
    fetch.pc = "done" =>
        \A records \in {result[1]}, pages \in {PagesBeforeStop(fetch.pages)} :
            /\ Len(records) <= fetch.max_records
            /\ \A k \in 1..Len(fetch.pages) : fetch.pages[k].offset = fetch_limit * (k - 1)
            /\ Len(pages) >= Len(fetch.pages) - 1
            /\ records = HeadN(ConcatRecords(pages), fetch.max_records)
            /\ Len(ConcatRecords(pages)) <= fetch.max_records => records = ConcatRecords(pages)

\* C30: fetch_all_records terminates for every sequence of page responses
\* (non-empty pages of any size, an empty page, a fetch error at any page)
\* and every max_records, and returns at most max_records records: the
\* concatenation, in offset order, of the pages fetched before the first
\* empty page or error, cut after max_records records.
C30_TerminatesWithFetchedPages ==
    /\ []ReturnsFetchedPages
    /\ (fetch.pc = "loop") ~> (fetch.pc = "done")

\* a call that fetched two pages and then failed, and one that fetched more
\* than max_records and returned max_records of them
C30_Witness ==
    /\ fetch.pc = "done"
    /\ \/ /\ Len(fetch.pages) = 3 /\ fetch.pages[3].kind = "error"
          /\ result[1] = fetch.pages[1].records \o fetch.pages[2].records
       \/ /\ Len(fetch.all_records) > fetch.max_records
          /\ Len(result[1]) = fetch.max_records /\ Len(fetch.pages) >= 2


=============================================================================
